---- MODULE Spec2Model ----
(***************************************************************************)
(* Resource-optimization analysis engine of mcp-gke-monitor (package       *)
(* optimization): the criteria record behind a sync.RWMutex, the handlers  *)
(* that read and update it, and the analysis pipeline                      *)
(* parseResourceValue -> analyzeResourceMetric -> analyzeHealthStatus ->   *)
(* identifyOptimizationIssues -> calculateOptimizationScore ->             *)
(* generatePodRecommendations -> GenerateOptimizationReport.               *)
(*                                                                         *)
(* Representation of numbers.                                              *)
(*   int32    an integer in MinInt32..MaxInt32; + and - wrap (Add32,Sub32) *)
(*   float64  parsed quantities, thresholds, utilization and waste        *)
(*            percentages are exact rationals [n, d] in lowest terms, d>0  *)
(*            (R...); scores can reach 100 + 10 * 2^31, beyond the range   *)
(*            of the checker's integers, and are carried exactly as        *)
(*            two-limb numbers in units of one half (W...).                *)
(*   string   quantity strings are sequences of one-character strings, so  *)
(*            that case folding, suffixes and digits are computed.         *)
(***************************************************************************)
EXTENDS Integers, Sequences, FiniteSets, TLC

VARIABLES
    criteria,     \* Service.criteria
    readers,      \* holders of Service.mu's read lock
    writer,       \* holder of Service.mu's write lock, or None
    pending,      \* callers blocked in Service.mu.Lock()
    pc,           \* position of each caller in its handler
    arguments,    \* request.Params.Arguments of each caller's current call
    newCriteria,  \* Handler.UpdateOptimizationCriteria's local newCriteria
    rep,          \* GenerateOptimizationReport's locals, per caller
    ret,          \* what the caller's last call returned
    cluster,      \* what the monitoring collaborator serves: the namespace's Pods
                  \* (gke.Pod) and the usage snapshot (gke.ResourceUsage) of each
    inp,          \* arguments of a direct call of one analysis function
    out           \* its result

vars == <<criteria, readers, writer, pending, pc, arguments, newCriteria, rep, ret,
          cluster, inp, out>>

None == "none"

\* an optional value: absent, or present with its value
Nil == <<>>
Some(x) == <<x>>

---------------------------------------------------------------------------
(* int32 *)

MaxInt32 == 2147483647
MinInt32 == -MaxInt32 - 1

\* a + b on int32, wrapping (Go's signed overflow), computed without leaving
\* the 32-bit range in between.
Add32(a, b) ==
    IF b > 0 /\ a > MaxInt32 - b THEN (a - MaxInt32 - 1) + (b - MaxInt32 - 1)
    ELSE IF b < 0 /\ a < MinInt32 - b THEN (a + MaxInt32 + 1) + (b + MaxInt32 + 1)
    ELSE a + b

\* a - b on int32, wrapping.
Sub32(a, b) ==
    IF b < 0 /\ a > MaxInt32 + b THEN (a - MaxInt32 - 1) - (b + MaxInt32 + 1)
    ELSE IF b > 0 /\ a < MinInt32 + b THEN (a + MaxInt32 + 1) - (b - MaxInt32 - 1)
    ELSE a - b

---------------------------------------------------------------------------
(* float64 scores: value = (hi * WBase + lo) / 2, 0 <= lo < WBase *)

WBase == 1000000

W(n) == [hi |-> (2 * n) \div WBase, lo |-> (2 * n) % WBase]

WAdd(a, b) ==
    LET s == a.lo + b.lo
    IN  [hi |-> a.hi + b.hi + s \div WBase, lo |-> s % WBase]

WNeg(a) ==
    IF a.lo = 0 THEN [hi |-> -a.hi, lo |-> 0]
    ELSE [hi |-> -a.hi - 1, lo |-> WBase - a.lo]

WSub(a, b) == WAdd(a, WNeg(b))

\* float64(d) * k for an int32 d and a small k > 0
WOfInt32Times(d, k) ==
    LET p == (d % WBase) * 2 * k
    IN  [hi |-> (d \div WBase) * 2 * k + p \div WBase, lo |-> p % WBase]

\* a / 2 (exact: the unit is one half, and every score is a multiple of 1/2
\* before it is halved only when it is a whole number)
WHalf(a) ==
    [hi |-> a.hi \div 2, lo |-> ((a.hi % 2) * WBase + a.lo) \div 2]

WLt(a, b) == a.hi < b.hi \/ (a.hi = b.hi /\ a.lo < b.lo)
WLe(a, b) == a = b \/ WLt(a, b)

---------------------------------------------------------------------------
(* float64 percentages: exact rationals *)

RECURSIVE GCD(_, _)
GCD(a, b) == IF b = 0 THEN a ELSE GCD(b, a % b)

Abs(n) == IF n < 0 THEN -n ELSE n

\* n / d for d # 0, in lowest terms with a positive denominator
R(n, d) ==
    LET g == GCD(Abs(n), Abs(d))
        s == IF d < 0 THEN -1 ELSE 1
    IN  [n |-> (s * n) \div g, d |-> (s * d) \div g]

RInt(k) == [n |-> k, d |-> 1]
RAdd(a, b) == R(a.n * b.d + b.n * a.d, a.d * b.d)
RSub(a, b) == R(a.n * b.d - b.n * a.d, a.d * b.d)
RMul(a, b) == R(a.n * b.n, a.d * b.d)
RDiv(a, b) == R(a.n * b.d, a.d * b.n)
RLt(a, b) == a.n * b.d < b.n * a.d
RLe(a, b) == a.n * b.d <= b.n * a.d

\* int32(x) of a float64 within int32's range: the fraction is dropped
\* (truncation toward zero)
Int32OfFloat64(x) ==
    IF x.d = 1 THEN x.n
    ELSE IF x.n >= 0 THEN x.n \div x.d
    ELSE -((-x.n) \div x.d)

---------------------------------------------------------------------------
(* strings *)

UpperChars == <<"A", "B", "C", "D", "E", "F", "G", "H", "I", "J", "K", "L", "M",
                "N", "O", "P", "Q", "R", "S", "T", "U", "V", "W", "X", "Y", "Z">>
LowerChars == <<"a", "b", "c", "d", "e", "f", "g", "h", "i", "j", "k", "l", "m",
                "n", "o", "p", "q", "r", "s", "t", "u", "v", "w", "x", "y", "z">>

\* strings.ToLower
ToLower(s) ==
    [i \in 1..Len(s) |->
        IF \E k \in 1..26 : UpperChars[k] = s[i]
        THEN LowerChars[CHOOSE k \in 1..26 : UpperChars[k] = s[i]]
        ELSE s[i]]

\* strings.HasSuffix, strings.TrimSuffix
HasSuffix(s, suffix) ==
    /\ Len(s) >= Len(suffix)
    /\ SubSeq(s, Len(s) - Len(suffix) + 1, Len(s)) = suffix

TrimSuffix(s, suffix) ==
    IF HasSuffix(s, suffix) THEN SubSeq(s, 1, Len(s) - Len(suffix)) ELSE s

Digits == <<"0", "1", "2", "3", "4", "5", "6", "7", "8", "9">>
IsDigit(c) == \E k \in 1..10 : Digits[k] = c
DigitVal(c) == (CHOOSE k \in 1..10 : Digits[k] = c) - 1

RECURSIVE DecimalValue(_)
DecimalValue(s) ==
    IF Len(s) = 0 THEN 0
    ELSE 10 * DecimalValue(SubSeq(s, 1, Len(s) - 1)) + DigitVal(s[Len(s)])

RECURSIVE Pow10(_)
Pow10(k) == IF k = 0 THEN 1 ELSE 10 * Pow10(k - 1)

\* strconv.ParseFloat(s, 64) on decimal numbers [+-]?digits[.digits] with at
\* least one digit; every other string of the input sets is a syntax error for
\* strconv as well (no exponent, hex, inf, nan or underscore forms are drawn).
IsSigned(s) == Len(s) > 0 /\ s[1] \in {"+", "-"}
Unsigned(s) == IF IsSigned(s) THEN Tail(s) ELSE s

\* the position of the decimal point, or Len + 1 without one
DotOf(body) ==
    IF \E i \in 1..Len(body) : body[i] = "."
    THEN CHOOSE i \in 1..Len(body) : body[i] = "."
    ELSE Len(body) + 1

WellFormed(body, dot) ==
    /\ Cardinality({i \in 1..Len(body) : body[i] = "."}) <= 1
    /\ \E i \in 1..Len(body) : IsDigit(body[i])
    /\ \A i \in 1..Len(body) : i # dot => IsDigit(body[i])

Magnitude(body, dot) ==
    R(DecimalValue(SubSeq(body, 1, dot - 1) \o SubSeq(body, dot + 1, Len(body))),
      Pow10(Len(SubSeq(body, dot + 1, Len(body)))))

ParseDecimal(negative, body, dot) ==
    IF WellFormed(body, dot)
    THEN [err |-> FALSE,
          val |-> IF negative THEN RSub(RInt(0), Magnitude(body, dot))
                  ELSE Magnitude(body, dot)]
    ELSE [err |-> TRUE, val |-> RInt(0)]

ParseFloat(s) ==
    ParseDecimal(IsSigned(s) /\ s[1] = "-", Unsigned(s), DotOf(Unsigned(s)))

\* fmt.Sprintf("%.1f", x): the decimal with one fractional digit nearest to x
\* (ties to even), as its number of tenths.
FormatF1(x) ==
    LET n == 10 * x.n
        q == n \div x.d
        r == n - q * x.d
    IN  IF 2 * r < x.d THEN q
        ELSE IF 2 * r > x.d THEN q + 1
        ELSE IF q % 2 = 0 THEN q ELSE q + 1

\* strings.Contains
Contains(s, substr) ==
    \E i \in 0..(Len(s) - Len(substr)) : SubSeq(s, i + 1, i + Len(substr)) = substr

---------------------------------------------------------------------------
(* types.go: Priority, RecommendationType, issue types *)

PriorityHigh == "HIGH"
PriorityMedium == "MEDIUM"
PriorityLow == "LOW"

RecommendationCPU == "CPU"
RecommendationMemory == "MEMORY"
RecommendationReplica == "REPLICA"
RecommendationStorage == "STORAGE"
RecommendationHealth == "HEALTH"
RecommendationSecurity == "SECURITY"

CPU_OVER_PROVISIONED == <<"C", "P", "U", "_", "O", "V", "E", "R", "_", "P", "R", "O", "V", "I", "S", "I", "O", "N", "E", "D">>
CPU_UNDER_PROVISIONED == <<"C", "P", "U", "_", "U", "N", "D", "E", "R", "_", "P", "R", "O", "V", "I", "S", "I", "O", "N", "E", "D">>
MEMORY_OVER_PROVISIONED ==
    <<"M", "E", "M", "O", "R", "Y", "_", "O", "V", "E", "R", "_", "P", "R", "O", "V", "I", "S", "I", "O", "N", "E", "D">>
MEMORY_UNDER_PROVISIONED ==
    <<"M", "E", "M", "O", "R", "Y", "_", "U", "N", "D", "E", "R", "_", "P", "R", "O", "V", "I", "S", "I", "O", "N", "E", "D">>
HIGH_RESTART_COUNT == <<"H", "I", "G", "H", "_", "R", "E", "S", "T", "A", "R", "T", "_", "C", "O", "U", "N", "T">>
POD_NOT_READY == <<"P", "O", "D", "_", "N", "O", "T", "_", "R", "E", "A", "D", "Y">>

---------------------------------------------------------------------------
(* service.go: the analysis functions.  c is s.criteria as the function reads it *)

\* NewServiceWithLogger: the criteria a new Service starts with
DefaultCriteria ==
    [CPUThreshold |-> RInt(20), MemoryThreshold |-> RInt(30),
     HealthThreshold |-> 5, IdleThreshold |-> RInt(5)]

\* parseResourceValue, after value = strings.ToLower(value)
ParseLowered(v) ==
    IF HasSuffix(v, <<"m">>) /\ ~ParseFloat(TrimSuffix(v, <<"m">>)).err
    THEN ParseFloat(TrimSuffix(v, <<"m">>)).val
    ELSE IF HasSuffix(v, <<"m", "i">>) /\ ~ParseFloat(TrimSuffix(v, <<"m", "i">>)).err
    THEN ParseFloat(TrimSuffix(v, <<"m", "i">>)).val
    ELSE IF HasSuffix(v, <<"g", "i">>) /\ ~ParseFloat(TrimSuffix(v, <<"g", "i">>)).err
    THEN RMul(ParseFloat(TrimSuffix(v, <<"g", "i">>)).val, RInt(1024))
    ELSE IF ~ParseFloat(v).err THEN ParseFloat(v).val
    ELSE RInt(0)

\* parseResourceValue
parseResourceValue(value) ==
    IF value = <<>> \/ value = <<"-">> THEN RInt(0) ELSE ParseLowered(ToLower(value))

\* fault injection for C21: the guard tests the current value
PercentOfGuardingCurrent(currentVal, limitVal) ==
    IF currentVal = RInt(0) THEN RInt(0)
    ELSE RMul(RDiv(currentVal, limitVal), RInt(100))

\* calculateUtilization / calculateDiskUtilization, from the two parsed values
PercentOf(currentVal, limitVal) ==
    IF limitVal = RInt(0) THEN RInt(0)
    ELSE RMul(RDiv(currentVal, limitVal), RInt(100))

\* calculateUtilization
calculateUtilization(current, limit) ==
    PercentOf(parseResourceValue(current), parseResourceValue(limit))

\* calculateDiskUtilization
calculateDiskUtilization(used, total) ==
    PercentOf(parseResourceValue(used), parseResourceValue(total))

\* fault injection for C5: the comparisons with <= and >= for < and >
ClassifyUtilizationInclusive(c, metric, utilization, resourceType) ==
    [metric EXCEPT
        !.Utilization = utilization,
        !.Status =
            IF RLe(utilization, c.IdleThreshold) THEN "IDLE"
            ELSE IF RLe(utilization, c.CPUThreshold) /\ resourceType = "CPU"
            THEN "OVER_PROVISIONED"
            ELSE IF RLe(utilization, c.MemoryThreshold) /\ resourceType = "MEMORY"
            THEN "OVER_PROVISIONED"
            ELSE IF RLe(RInt(80), utilization) THEN "UNDER_PROVISIONED"
            ELSE "OPTIMAL"]

\* analyzeResourceMetric: the branch that has a limit and a current value.
\* Suggestion is the format's name with its arguments as Sprintf renders them.
ClassifyUtilization(c, metric, utilization, resourceType) ==
    IF RLt(utilization, c.IdleThreshold)
    THEN [metric EXCEPT !.Utilization = utilization, !.Status = "IDLE",
              !.Suggestion = <<"usage very low", resourceType, FormatF1(utilization)>>]
    ELSE IF RLt(utilization, c.CPUThreshold) /\ resourceType = "CPU"
    THEN [metric EXCEPT !.Utilization = utilization, !.Status = "OVER_PROVISIONED",
              !.Suggestion = <<"CPU over-provisioned", FormatF1(utilization)>>]
    ELSE IF RLt(utilization, c.MemoryThreshold) /\ resourceType = "MEMORY"
    THEN [metric EXCEPT !.Utilization = utilization, !.Status = "OVER_PROVISIONED",
              !.Suggestion = <<"memory over-provisioned", FormatF1(utilization)>>]
    ELSE IF RLt(RInt(80), utilization)
    THEN [metric EXCEPT !.Utilization = utilization, !.Status = "UNDER_PROVISIONED",
              !.Suggestion = <<"usage too high", resourceType, FormatF1(utilization)>>]
    ELSE [metric EXCEPT !.Utilization = utilization, !.Status = "OPTIMAL",
              !.Suggestion = <<"usage normal", resourceType, FormatF1(utilization)>>]

\* the ResourceMetric analyzeResourceMetric starts from
NewMetric(current, request, limit) ==
    [Current |-> current, Request |-> request, Limit |-> limit,
     Utilization |-> RInt(0), Status |-> "", Suggestion |-> <<>>]

\* fault injection for C4: no test for an empty limit or current value
analyzeResourceMetricUnchecked(c, current, request, limit, resourceType) ==
    ClassifyUtilization(c, NewMetric(current, request, limit),
                        calculateUtilization(current, limit), resourceType)

\* analyzeResourceMetric
analyzeResourceMetric(c, current, request, limit, resourceType) ==
    IF limit # <<>> /\ current # <<>>
    THEN ClassifyUtilization(c, NewMetric(current, request, limit),
                             calculateUtilization(current, limit), resourceType)
    ELSE [NewMetric(current, request, limit) EXCEPT
              !.Status = "UNKNOWN", !.Suggestion = <<"cannot compute utilization">>]

\* analyzeResourceUsage
analyzeResourceUsage(c, usage) ==
    [CPU |-> analyzeResourceMetric(c, usage.CPU.Current, usage.CPU.Request,
                                   usage.CPU.Limit, "CPU"),
     Memory |-> analyzeResourceMetric(c, usage.Memory.Current, usage.Memory.Request,
                                      usage.Memory.Limit, "MEMORY"),
     Disk |-> [Current |-> usage.Disk.Used, Request |-> <<"-">>,
               Limit |-> usage.Disk.Total,
               Utilization |-> calculateDiskUtilization(usage.Disk.Used, usage.Disk.Total),
               Status |-> "OPTIMAL", Suggestion |-> <<"disk usage normal">>]]

\* analyzeHealthStatus: totalRestarts += container.Restart over pod.Containers
RECURSIVE TotalRestarts(_)
TotalRestarts(containers) ==
    IF containers = <<>> THEN 0
    ELSE Add32(TotalRestarts(SubSeq(containers, 1, Len(containers) - 1)),
               containers[Len(containers)].Restart)

\* analyzeHealthStatus: healthIssues
RECURSIVE HealthIssues(_)
HealthIssues(containers) ==
    IF containers = <<>> THEN <<>>
    ELSE (IF Head(containers).Restart > 0
          THEN << <<"container restarted", Head(containers).Name, Head(containers).Restart>> >>
          ELSE <<>>)
         \o (IF ~Head(containers).Ready
             THEN << <<"container not ready", Head(containers).Name>> >>
             ELSE <<>>)
         \o HealthIssues(Tail(containers))

\* analyzeHealthStatus: healthScore := 100.0 and the restart penalty
ScoreAfterRestarts(c, totalRestarts) ==
    IF totalRestarts > c.HealthThreshold
    THEN WSub(W(100), WOfInt32Times(Sub32(totalRestarts, c.HealthThreshold), 10))
    ELSE W(100)

\* if !pod.Ready { healthScore -= 30 }
ScoreAfterReady(pod, healthScore) ==
    IF ~pod.Ready THEN WSub(healthScore, W(30)) ELSE healthScore

\* if pod.Status != "Running" { healthScore -= 40 }
ScoreAfterStatus(pod, healthScore) ==
    IF pod.Status # "Running" THEN WSub(healthScore, W(40)) ELSE healthScore

\* if score < 0 { score = 0 }
FloorAtZero(score) == IF WLt(score, W(0)) THEN W(0) ELSE score

\* analyzeHealthStatus: the HealthStatus it returns
HealthStatusOf(c, pod, totalRestarts) ==
    [Ready |-> pod.Ready, RestartCount |-> totalRestarts,
     HealthScore |->
        FloorAtZero(ScoreAfterStatus(pod,
            ScoreAfterReady(pod, ScoreAfterRestarts(c, totalRestarts)))),
     HealthIssues |-> HealthIssues(pod.Containers)]

\* analyzeHealthStatus
analyzeHealthStatus(c, pod) == HealthStatusOf(c, pod, TotalRestarts(pod.Containers))

\* fault injection for C25: the over-provisioned CPU issue is of LOW severity
CPUIssuesAsLow(resourceAnalysis) ==
    IF resourceAnalysis.CPU.Status = "OVER_PROVISIONED"
    THEN << [Type |-> CPU_OVER_PROVISIONED, Severity |-> PriorityLow,
             Description |-> <<"CPU over-provisioned">>,
             Suggestion |-> resourceAnalysis.CPU.Suggestion] >>
    ELSE IF resourceAnalysis.CPU.Status = "UNDER_PROVISIONED"
    THEN << [Type |-> CPU_UNDER_PROVISIONED, Severity |-> PriorityHigh,
             Description |-> <<"CPU insufficient">>,
             Suggestion |-> resourceAnalysis.CPU.Suggestion] >>
    ELSE <<>>

\* identifyOptimizationIssues: the CPU rule
CPUIssues(resourceAnalysis) ==
    IF resourceAnalysis.CPU.Status = "OVER_PROVISIONED"
    THEN << [Type |-> CPU_OVER_PROVISIONED, Severity |-> PriorityMedium,
             Description |-> <<"CPU over-provisioned">>,
             Suggestion |-> resourceAnalysis.CPU.Suggestion] >>
    ELSE IF resourceAnalysis.CPU.Status = "UNDER_PROVISIONED"
    THEN << [Type |-> CPU_UNDER_PROVISIONED, Severity |-> PriorityHigh,
             Description |-> <<"CPU insufficient">>,
             Suggestion |-> resourceAnalysis.CPU.Suggestion] >>
    ELSE <<>>

\* fault injection for C26: idle memory is reported as over-provisioned memory
MemoryIssuesForIdle(resourceAnalysis) ==
    IF resourceAnalysis.Memory.Status \in {"OVER_PROVISIONED", "IDLE"}
    THEN << [Type |-> MEMORY_OVER_PROVISIONED, Severity |-> PriorityMedium,
             Description |-> <<"memory over-provisioned">>,
             Suggestion |-> resourceAnalysis.Memory.Suggestion] >>
    ELSE IF resourceAnalysis.Memory.Status = "UNDER_PROVISIONED"
    THEN << [Type |-> MEMORY_UNDER_PROVISIONED, Severity |-> PriorityHigh,
             Description |-> <<"memory insufficient">>,
             Suggestion |-> resourceAnalysis.Memory.Suggestion] >>
    ELSE <<>>

\* identifyOptimizationIssues: the memory rule
MemoryIssues(resourceAnalysis) ==
    IF resourceAnalysis.Memory.Status = "OVER_PROVISIONED"
    THEN << [Type |-> MEMORY_OVER_PROVISIONED, Severity |-> PriorityMedium,
             Description |-> <<"memory over-provisioned">>,
             Suggestion |-> resourceAnalysis.Memory.Suggestion] >>
    ELSE IF resourceAnalysis.Memory.Status = "UNDER_PROVISIONED"
    THEN << [Type |-> MEMORY_UNDER_PROVISIONED, Severity |-> PriorityHigh,
             Description |-> <<"memory insufficient">>,
             Suggestion |-> resourceAnalysis.Memory.Suggestion] >>
    ELSE <<>>

\* fault injection for C7: the restart rule with >= for >
RestartIssuesInclusive(c, healthStatus) ==
    IF healthStatus.RestartCount >= c.HealthThreshold
    THEN << [Type |-> HIGH_RESTART_COUNT, Severity |-> PriorityHigh,
             Description |-> <<"too many restarts", healthStatus.RestartCount>>,
             Suggestion |-> <<"check the application logs">>] >>
    ELSE <<>>

\* identifyOptimizationIssues: the restart rule
RestartIssues(c, healthStatus) ==
    IF healthStatus.RestartCount > c.HealthThreshold
    THEN << [Type |-> HIGH_RESTART_COUNT, Severity |-> PriorityHigh,
             Description |-> <<"too many restarts", healthStatus.RestartCount>>,
             Suggestion |-> <<"check the application logs">>] >>
    ELSE <<>>

\* fault injection for C29: a Pod that is not Running gets an issue of its own
ReadyIssuesAndStatus(pod) ==
    (IF ~pod.Ready
     THEN << [Type |-> POD_NOT_READY, Severity |-> PriorityHigh,
              Description |-> <<"pod not ready">>,
              Suggestion |-> <<"check pod status and events">>] >>
     ELSE <<>>)
    \o (IF pod.Status # "Running"
        THEN << [Type |-> POD_NOT_READY, Severity |-> PriorityHigh,
                 Description |-> <<"pod not running">>,
                 Suggestion |-> <<"check pod status and events">>] >>
        ELSE <<>>)

\* identifyOptimizationIssues: the readiness rule
ReadyIssues(pod) ==
    IF ~pod.Ready
    THEN << [Type |-> POD_NOT_READY, Severity |-> PriorityHigh,
             Description |-> <<"pod not ready">>,
             Suggestion |-> <<"check pod status and events">>] >>
    ELSE <<>>

\* identifyOptimizationIssues
identifyOptimizationIssues(c, resourceAnalysis, healthStatus, pod) ==
    CPUIssues(resourceAnalysis) \o MemoryIssues(resourceAnalysis)
        \o RestartIssues(c, healthStatus) \o ReadyIssues(pod)

\* fault injection for C8: LOW issues cost nothing
PenaltyIgnoringLow(severity) ==
    IF severity = PriorityHigh THEN W(20)
    ELSE IF severity = PriorityMedium THEN W(10)
    ELSE W(0)

\* calculateOptimizationScore: the switch on issue.Severity
PenaltyOf(severity) ==
    IF severity = PriorityHigh THEN W(20)
    ELSE IF severity = PriorityMedium THEN W(10)
    ELSE IF severity = PriorityLow THEN W(5)
    ELSE W(0)

\* calculateOptimizationScore: score := 100.0 and the loop over issues
RECURSIVE PenalizedScore(_)
PenalizedScore(issues) ==
    IF issues = <<>> THEN W(100)
    ELSE WSub(PenalizedScore(SubSeq(issues, 1, Len(issues) - 1)),
              PenaltyOf(issues[Len(issues)].Severity))

\* calculateOptimizationScore
calculateOptimizationScore(resourceAnalysis, healthStatus, issues) ==
    FloorAtZero(WHalf(WAdd(PenalizedScore(issues), healthStatus.HealthScore)))

\* mapIssueTypeToRecommendationType
\* fault injection for C11: the RESTART/READY branch yields REPLICA
mapIssueTypeRestartAsReplica(issueType) ==
    IF Contains(issueType, <<"C", "P", "U">>) THEN RecommendationCPU
    ELSE IF Contains(issueType, <<"M", "E", "M", "O", "R", "Y">>) THEN RecommendationMemory
    ELSE IF \/ Contains(issueType, <<"R", "E", "S", "T", "A", "R", "T">>)
            \/ Contains(issueType, <<"R", "E", "A", "D", "Y">>)
    THEN RecommendationReplica
    ELSE RecommendationHealth

mapIssueTypeToRecommendationType(issueType) ==
    IF Contains(issueType, <<"C", "P", "U">>) THEN RecommendationCPU
    ELSE IF Contains(issueType, <<"M", "E", "M", "O", "R", "Y">>) THEN RecommendationMemory
    ELSE IF \/ Contains(issueType, <<"R", "E", "S", "T", "A", "R", "T">>)
            \/ Contains(issueType, <<"R", "E", "A", "D", "Y">>)
    THEN RecommendationHealth
    ELSE RecommendationHealth

\* generatePodRecommendations: rec.Impact by the switch on issue.Type
ImpactOf(issueType) ==
    IF issueType = CPU_OVER_PROVISIONED THEN "lower CPU cost"
    ELSE IF issueType = MEMORY_OVER_PROVISIONED THEN "lower memory cost"
    ELSE IF issueType = HIGH_RESTART_COUNT THEN "better stability and availability"
    ELSE IF issueType = POD_NOT_READY THEN "service keeps running"
    ELSE ""

\* generatePodRecommendations: rec.Action by the switch on issue.Type
ActionOf(issueType) ==
    IF issueType = CPU_OVER_PROVISIONED THEN "adjust CPU requests and limits"
    ELSE IF issueType = MEMORY_OVER_PROVISIONED THEN "adjust memory requests and limits"
    ELSE IF issueType = HIGH_RESTART_COUNT THEN "check the logs and fix the problem"
    ELSE IF issueType = POD_NOT_READY THEN "check pod status and health checks"
    ELSE ""

\* fmt's %d of a number >= 0: its decimal digits
RECURSIVE FormatInt(_)
FormatInt(k) ==
    IF k < 10 THEN <<Digits[k + 1]>>
    ELSE Append(FormatInt(k \div 10), Digits[(k % 10) + 1])

\* generatePodRecommendations: the recommendation of one issue;
\* ID is Sprintf("REC-%s-%d", podOpt.PodName, idCounter)
RecommendationOf(podOpt, issue, idCounter) ==
    [ID |-> <<"REC-", podOpt.PodName, "-">> \o FormatInt(idCounter),
     Type |-> mapIssueTypeToRecommendationType(issue.Type),
     Priority |-> issue.Severity,
     Title |-> issue.Description,
     Description |-> issue.Suggestion,
     Impact |-> ImpactOf(issue.Type),
     Action |-> ActionOf(issue.Type),
     PodName |-> podOpt.PodName,
     Namespace |-> podOpt.Namespace]

\* fault injection for C10: idCounter starts at 0
generatePodRecommendationsFromZero(podOpt) ==
    [k \in 1..Len(podOpt.Issues) |-> RecommendationOf(podOpt, podOpt.Issues[k], k - 1)]

\* fault injection for C19: idCounter is shared by the calls in progress and
\* goes on from the recommendations they have made
generatePodRecommendationsSharedCounter(podOpt) ==
    [k \in 1..Len(podOpt.Issues) |->
        RecommendationOf(podOpt, podOpt.Issues[k],
            k + Cardinality(UNION {{q} \X (1..Len(rep[q].recommendations)) :
                                      q \in DOMAIN rep}))]

\* generatePodRecommendations: idCounter starts at 1 and grows by one per issue
generatePodRecommendations(podOpt) ==
    [k \in 1..Len(podOpt.Issues) |-> RecommendationOf(podOpt, podOpt.Issues[k], k)]

\* filterRecommendations: the loop appends rec unless one of the two continue
\* conditions holds; an empty priority or recommendationType filters nothing
filterRecommendations(recommendations, priority, recommendationType) ==
    SelectSeq(recommendations,
              LAMBDA rec :
                  /\ ~(priority # "" /\ rec.Priority # priority)
                  /\ ~(recommendationType # "" /\ rec.Type # recommendationType))

\* the snapshot analyzePod substitutes when GetPodResourceUsage fails
EmptyUsage ==
    [CPU |-> [Current |-> <<>>, Request |-> <<>>, Limit |-> <<>>],
     Memory |-> [Current |-> <<>>, Request |-> <<>>, Limit |-> <<>>],
     Disk |-> [Used |-> <<>>, Total |-> <<>>]]

\* analyzePod: the PodOptimization it builds
PodOptimizationOf(pod, resourceAnalysis, healthStatus, issues) ==
    [PodName |-> pod.Name, Namespace |-> pod.Namespace, Status |-> pod.Status,
     OptimizationScore |-> calculateOptimizationScore(resourceAnalysis, healthStatus, issues),
     Issues |-> issues,
     ResourceAnalysis |-> resourceAnalysis, HealthStatus |-> healthStatus]

\* analyzePod, from resourceAnalysis and healthStatus on
AnalyzePodFrom(c, pod, resourceAnalysis, healthStatus) ==
    [err |-> None,
     podOpt |-> PodOptimizationOf(pod, resourceAnalysis, healthStatus,
                    identifyOptimizationIssues(c, resourceAnalysis, healthStatus, pod))]

\* fault injection for C6: a failed usage fetch fails the Pod's analysis
analyzePodFailing(c, pod, fetched) ==
    IF fetched = Nil THEN [err |-> "usage unavailable", podOpt |-> Nil]
    ELSE AnalyzePodFrom(c, pod, analyzeResourceUsage(c, fetched[1]),
                        analyzeHealthStatus(c, pod))

\* analyzePod.  fetched is GetPodResourceUsage's result: Some(usage snapshot), or
\* Nil for an error.  Returns (podOpt, err); err is always nil.
analyzePod(c, pod, fetched) ==
    AnalyzePodFrom(c, pod,
        analyzeResourceUsage(c, IF fetched = Nil THEN EmptyUsage ELSE fetched[1]),
        analyzeHealthStatus(c, pod))

\* analyzeResourceWaste: one ResourceWaste record
WasteRecord(podAnalysis, resourceType, metric, wastePercentage) ==
    [PodName |-> podAnalysis.PodName, Namespace |-> podAnalysis.Namespace,
     ResourceType |-> resourceType,
     Allocated |-> metric.Limit, Used |-> metric.Current,
     WastePercentage |-> wastePercentage,
     WasteAmount |-> FormatF1(wastePercentage)]

\* fault injection for C12: the memory record is decided by the CPU status
WasteOfByCPUStatus(podAnalysis) ==
    (IF podAnalysis.ResourceAnalysis.CPU.Status = "OVER_PROVISIONED"
     THEN << WasteRecord(podAnalysis, "CPU", podAnalysis.ResourceAnalysis.CPU,
                 RSub(RInt(100), podAnalysis.ResourceAnalysis.CPU.Utilization)) >>
     ELSE <<>>)
    \o
    (IF podAnalysis.ResourceAnalysis.CPU.Status = "OVER_PROVISIONED"
     THEN << WasteRecord(podAnalysis, "MEMORY", podAnalysis.ResourceAnalysis.Memory,
                 RSub(RInt(100), podAnalysis.ResourceAnalysis.Memory.Utilization)) >>
     ELSE <<>>)

\* analyzeResourceWaste: the records of one Pod
WasteOf(podAnalysis) ==
    (IF podAnalysis.ResourceAnalysis.CPU.Status = "OVER_PROVISIONED"
     THEN << WasteRecord(podAnalysis, "CPU", podAnalysis.ResourceAnalysis.CPU,
                 RSub(RInt(100), podAnalysis.ResourceAnalysis.CPU.Utilization)) >>
     ELSE <<>>)
    \o
    (IF podAnalysis.ResourceAnalysis.Memory.Status = "OVER_PROVISIONED"
     THEN << WasteRecord(podAnalysis, "MEMORY", podAnalysis.ResourceAnalysis.Memory,
                 RSub(RInt(100), podAnalysis.ResourceAnalysis.Memory.Utilization)) >>
     ELSE <<>>)

\* analyzeResourceWaste: overProvisionedPods
RECURSIVE OverProvisionedPods(_)
OverProvisionedPods(podAnalyses) ==
    IF podAnalyses = <<>> THEN <<>>
    ELSE WasteOf(Head(podAnalyses)) \o OverProvisionedPods(Tail(podAnalyses))

\* fault injection for C13: one utilization below the idle threshold suffices
RECURSIVE IdlePodsEither(_, _)
IdlePodsEither(c, podAnalyses) ==
    IF podAnalyses = <<>> THEN <<>>
    ELSE (IF \/ RLt(Head(podAnalyses).ResourceAnalysis.CPU.Utilization, c.IdleThreshold)
             \/ RLt(Head(podAnalyses).ResourceAnalysis.Memory.Utilization, c.IdleThreshold)
          THEN <<Head(podAnalyses).PodName>>
          ELSE <<>>)
         \o IdlePodsEither(c, Tail(podAnalyses))

\* analyzeResourceWaste: idlePods
RECURSIVE IdlePods(_, _)
IdlePods(c, podAnalyses) ==
    IF podAnalyses = <<>> THEN <<>>
    ELSE (IF /\ RLt(Head(podAnalyses).ResourceAnalysis.CPU.Utilization, c.IdleThreshold)
             /\ RLt(Head(podAnalyses).ResourceAnalysis.Memory.Utilization, c.IdleThreshold)
          THEN <<Head(podAnalyses).PodName>>
          ELSE <<>>)
         \o IdlePods(c, Tail(podAnalyses))

\* analyzeResourceWaste: totalCPUWaste / totalMemoryWaste, the sum over the
\* records of one resource type
RECURSIVE TotalWaste(_, _)
TotalWaste(wastes, resourceType) ==
    IF wastes = <<>> THEN RInt(0)
    ELSE RAdd(TotalWaste(SubSeq(wastes, 1, Len(wastes) - 1), resourceType),
              IF wastes[Len(wastes)].ResourceType = resourceType
              THEN wastes[Len(wastes)].WastePercentage
              ELSE RInt(0))

\* fault injection for C14: the sum is divided by the number of records
WastageStatsPerRecord(totalCPUWaste, totalMemoryWaste, count) ==
    [TotalCPUWaste |-> FormatF1(totalCPUWaste),
     TotalMemoryWaste |-> FormatF1(totalMemoryWaste),
     WastePercentage |->
        IF count > 0 THEN RDiv(RAdd(totalCPUWaste, totalMemoryWaste), RInt(count))
        ELSE RInt(0),
     EstimatedCost |-> "needs more cost information"]

\* analyzeResourceWaste: wastageStats
WastageStats(totalCPUWaste, totalMemoryWaste, count) ==
    [TotalCPUWaste |-> FormatF1(totalCPUWaste),
     TotalMemoryWaste |-> FormatF1(totalMemoryWaste),
     WastePercentage |->
        IF count > 0 THEN RDiv(RAdd(totalCPUWaste, totalMemoryWaste), RInt(count * 2))
        ELSE RInt(0),
     EstimatedCost |-> "needs more cost information"]

\* analyzeResourceWaste, from overProvisionedPods on
WasteAnalysisOf(c, podAnalyses, overProvisionedPods) ==
    [OverProvisionedPods |-> overProvisionedPods,
     UnderUtilizedPods |-> <<>>,
     IdlePods |-> IdlePods(c, podAnalyses),
     TotalWastage |-> WastageStats(TotalWaste(overProvisionedPods, "CPU"),
                                   TotalWaste(overProvisionedPods, "MEMORY"),
                                   Len(overProvisionedPods))]

\* analyzeResourceWaste
analyzeResourceWaste(c, podAnalyses) ==
    WasteAnalysisOf(c, podAnalyses, OverProvisionedPods(podAnalyses))

\* generateSummary: totalScore
RECURSIVE TotalScore(_)
TotalScore(podAnalyses) ==
    IF podAnalyses = <<>> THEN W(0)
    ELSE WAdd(TotalScore(SubSeq(podAnalyses, 1, Len(podAnalyses) - 1)),
              podAnalyses[Len(podAnalyses)].OptimizationScore)

\* fault injection for C15: podsNeedingOptimization counts the issues
generateSummaryCountingIssues(podAnalyses, resourceWaste) ==
    [TotalPods |-> Len(podAnalyses),
     PodsNeedingOptimization |->
        Cardinality(UNION {{i} \X (1..Len(podAnalyses[i].Issues)) :
                               i \in 1..Len(podAnalyses)}),
     PotentialCPUSavings |-> resourceWaste.TotalWastage.TotalCPUWaste,
     PotentialMemorySavings |-> resourceWaste.TotalWastage.TotalMemoryWaste,
     OverallScore |->
        IF Len(podAnalyses) > 0
        THEN [num |-> TotalScore(podAnalyses), den |-> Len(podAnalyses)]
        ELSE [num |-> W(0), den |-> 1]]

\* generateSummary.  OverallScore is the quotient num / den, kept unevaluated.
generateSummary(podAnalyses, resourceWaste) ==
    [TotalPods |-> Len(podAnalyses),
     PodsNeedingOptimization |->
        Cardinality({i \in 1..Len(podAnalyses) : Len(podAnalyses[i].Issues) > 0}),
     PotentialCPUSavings |-> resourceWaste.TotalWastage.TotalCPUWaste,
     PotentialMemorySavings |-> resourceWaste.TotalWastage.TotalMemoryWaste,
     OverallScore |->
        IF Len(podAnalyses) > 0
        THEN [num |-> TotalScore(podAnalyses), den |-> Len(podAnalyses)]
        ELSE [num |-> W(0), den |-> 1]]

---------------------------------------------------------------------------
(* bounds and input sets *)

MaxPods == 2          \* Pods in the namespace
MaxContainers == 2    \* containers of a Pod given to an analysis function
MaxIssues == 6        \* issues given to calculateOptimizationScore

Callers == {"c1", "c2"}

\* quantity strings, by their text, as the sequences of their characters
Qty ==
    ("10m" :> <<"1", "0", "m">>)
    @@ ("200m" :> <<"2", "0", "0", "m">>)
    @@ ("100Mi" :> <<"1", "0", "0", "M", "i">>)
    @@ ("200Mi" :> <<"2", "0", "0", "M", "i">>)
    @@ ("500Mi" :> <<"5", "0", "0", "M", "i">>)
    @@ ("2Gi" :> <<"2", "G", "i">>)
    @@ ("8m" :> <<"8", "m">>)
    @@ ("40m" :> <<"4", "0", "m">>)
    @@ ("60m" :> <<"6", "0", "m">>)
    @@ ("160m" :> <<"1", "6", "0", "m">>)
    @@ ("162m" :> <<"1", "6", "2", "m">>)
    @@ ("500m" :> <<"5", "0", "0", "m">>)
    @@ ("256Mi" :> <<"2", "5", "6", "M", "i">>)
    @@ ("1Gi" :> <<"1", "G", "i">>)
    @@ ("abc" :> <<"a", "b", "c">>)
    @@ ("1.5GI" :> <<"1", ".", "5", "G", "I">>)
    @@ ("512Mi" :> <<"5", "1", "2", "M", "i">>)
    @@ ("20m" :> <<"2", "0", "m">>)
    @@ ("32Mi" :> <<"3", "2", "M", "i">>)

Container(name, ready, restart) == [Name |-> name, Ready |-> ready, Restart |-> restart]

MetricUsage(current, limit) == [Current |-> current, Request |-> <<>>, Limit |-> limit]

\* The namespace's Pods, each with the snapshot GetPodResourceUsage serves for it
PodFixtures ==
    << [pod |-> [Name |-> "a", Namespace |-> "default", Status |-> "Running",
                 Ready |-> TRUE, Containers |-> <<Container("c1", TRUE, 0)>>],
        usage |-> [CPU |-> MetricUsage(Qty["10m"], Qty["200m"]),
                   Memory |-> MetricUsage(Qty["100Mi"], Qty["200Mi"]),
                   Disk |-> [Used |-> Qty["500Mi"], Total |-> Qty["2Gi"]]]],
       [pod |-> [Name |-> "b", Namespace |-> "default", Status |-> "Pending",
                 Ready |-> FALSE,
                 Containers |-> <<Container("c1", TRUE, 5), Container("c2", FALSE, 3)>>],
        usage |-> [CPU |-> MetricUsage(Qty["200m"], Qty["200m"]),
                   Memory |-> MetricUsage(Qty["10m"], Qty["200Mi"]),
                   Disk |-> [Used |-> Qty["500Mi"], Total |-> Qty["2Gi"]]]],
       [pod |-> [Name |-> "c", Namespace |-> "default", Status |-> "Running",
                 Ready |-> TRUE, Containers |-> <<>>],
        usage |-> [CPU |-> MetricUsage(<<"4", "m">>, Qty["200m"]),
                   Memory |-> MetricUsage(<<"2", "M", "i">>, Qty["200Mi"]),
                   Disk |-> [Used |-> Qty["500Mi"], Total |-> Qty["2Gi"]]]] >>

\* the namespaces drawn: the first n fixtures, n up to MaxPods
Clusters == {SubSeq(PodFixtures, 1, n) : n \in {k \in 0..MaxPods : k <= Len(PodFixtures)}}

\* request.Params.Arguments of update_optimization_criteria: each field absent
\* (Nil) or a JSON number (a float64); healthThreshold's number is whole (the
\* criteria's healthThreshold is an integer) and within int32.
UpdateArguments ==
    [cpuThreshold : {Nil, Some(RInt(15))}, memoryThreshold : {Nil, Some(RInt(40))},
     healthThreshold : {Nil, Some(RInt(3))}, idleThreshold : {Nil, Some(RInt(10))}]

\* the update calls drawn when calls overlap
OverlappingArguments ==
    {[cpuThreshold |-> Some(RInt(15)), memoryThreshold |-> Nil,
      healthThreshold |-> Nil, idleThreshold |-> Nil],
     [cpuThreshold |-> Nil, memoryThreshold |-> Some(RInt(40)),
      healthThreshold |-> Nil, idleThreshold |-> Nil],
     [cpuThreshold |-> Some(RInt(15)), memoryThreshold |-> Some(RInt(40)),
      healthThreshold |-> Some(RInt(3)), idleThreshold |-> Some(RInt(10))]}

NoArguments ==
    [cpuThreshold |-> Nil, memoryThreshold |-> Nil, healthThreshold |-> Nil,
     idleThreshold |-> Nil]

NoResult == [err |-> None, val |-> Nil]

NoInput == [fn |-> "none"]

ZeroCriteria ==
    [CPUThreshold |-> RInt(0), MemoryThreshold |-> RInt(0),
     HealthThreshold |-> 0, IdleThreshold |-> RInt(0)]

\* request.Params of the report tool and of the four narrower queries: the
\* tool's name and its podName, priority and type arguments ("" when absent)
Queries ==
    {[tool |-> t, podName |-> "", priority |-> "", recommendationType |-> ""] :
        t \in {"generate_optimization_report", "get_optimization_summary",
               "get_resource_waste_analysis"}}
    \cup {[tool |-> "get_optimization_recommendations", podName |-> "",
           priority |-> PriorityMedium, recommendationType |-> t] :
             t \in {"", RecommendationCPU}}
    \cup {[tool |-> "get_pod_optimization_analysis", podName |-> n,
           priority |-> "", recommendationType |-> ""] : n \in {"a", "b", "zz", ""}}

NoReport == [query |-> [tool |-> "generate_optimization_report", podName |-> "",
                         priority |-> "", recommendationType |-> ""],
             pods |-> <<>>, idx |-> 0, fetched |-> <<>>, podAnalysis |-> <<>>,
             recommendations |-> <<>>, now |-> 0, listedAt |-> 0, fetchedAt |-> <<>>]

---------------------------------------------------------------------------
(* sync.RWMutex Service.mu *)

\* RLock returns at once iff no writer holds the lock and none waits for it
CanRLock == writer = None /\ pending = {}

\* fault injection for C2: a lock that excludes writers only
CanLockDespiteReaders == writer = None

\* Lock returns once no reader and no writer holds the lock
CanLock == writer = None /\ readers = {}

---------------------------------------------------------------------------
(* Handler.GenerateOptimizationReport -> Service.GenerateOptimizationReport *)

\* The handler of the tool q.tool up to its call of
\* h.service.GenerateOptimizationReport; GetPodOptimizationAnalysis returns an
\* error before the call when podName is absent or empty.
StartReport(p, q) ==
    /\ pc[p] = "idle"
    /\ rep' = [rep EXCEPT ![p] = [NoReport EXCEPT !.query = q]]
    /\ IF q.tool = "get_pod_optimization_analysis" /\ q.podName = ""
       THEN /\ pc' = [pc EXCEPT ![p] = "done"]
            /\ ret' = [ret EXCEPT ![p] = [err |-> "pod name required", val |-> Nil]]
       ELSE /\ pc' = [pc EXCEPT ![p] = "rlock"]
            /\ ret' = ret
    /\ UNCHANGED <<criteria, readers, writer, pending, arguments, newCriteria,
                   cluster, inp, out>>

\* s.mu.RLock()
ReportRLock(p) ==
    /\ pc[p] = "rlock"
    /\ CanRLock
    /\ readers' = readers \cup {p}
    /\ pc' = [pc EXCEPT ![p] = "list"]
    /\ UNCHANGED <<criteria, writer, pending, arguments, newCriteria, rep, ret,
                   cluster, inp, out>>

\* pods, err := s.gkeService.GetAllPods(namespace)
ReportGetAllPods(p) ==
    /\ pc[p] = "list"
    /\ \/ /\ rep' = [rep EXCEPT ![p].pods = [i \in 1..Len(cluster) |-> cluster[i].pod],
                                ![p].idx = 1, ![p].now = rep[p].now + 1,
                                ![p].listedAt = rep[p].now + 1]
          /\ pc' = [pc EXCEPT ![p] = "analyze"]
          /\ ret' = ret
       \/ /\ ret' = [ret EXCEPT ![p] = [err |-> "cannot list pods", val |-> Nil]]
          /\ pc' = [pc EXCEPT ![p] = "runlock"]
          /\ rep' = rep
    /\ UNCHANGED <<criteria, readers, writer, pending, arguments, newCriteria,
                   cluster, inp, out>>

\* the loop body after analyzePod returned res: err != nil skips the Pod,
\* otherwise its analysis and its recommendations are appended
AfterAnalyzePod(r, fetched, res) ==
    [r EXCEPT
        !.idx = r.idx + 1,
        !.now = r.now + 1,
        !.fetched = Append(r.fetched, fetched),
        !.fetchedAt = Append(r.fetchedAt, r.now + 1),
        !.podAnalysis =
            IF res.err # None THEN r.podAnalysis ELSE Append(r.podAnalysis, res.podOpt),
        !.recommendations =
            IF res.err # None THEN r.recommendations
            ELSE r.recommendations \o generatePodRecommendations(res.podOpt)]

\* fault injection for C17: the loop analyses under the criteria the service
\* was constructed with
ReportAnalyzePodStale(p) ==
    /\ pc[p] = "analyze"
    /\ rep[p].idx <= Len(rep[p].pods)
    /\ \E fetched \in {Some(cluster[rep[p].idx].usage), Nil} :
          rep' = [rep EXCEPT ![p] =
                    AfterAnalyzePod(rep[p], fetched,
                        analyzePod(DefaultCriteria, rep[p].pods[rep[p].idx], fetched))]
    /\ UNCHANGED <<criteria, readers, writer, pending, pc, arguments, newCriteria, ret,
                   cluster, inp, out>>

\* one iteration of the loop over pods: analyzePod, whose GetPodResourceUsage
\* call serves the Pod's snapshot or fails, then generatePodRecommendations
ReportAnalyzePod(p) ==
    /\ pc[p] = "analyze"
    /\ rep[p].idx <= Len(rep[p].pods)
    /\ \E fetched \in {Some(cluster[rep[p].idx].usage), Nil} :
          rep' = [rep EXCEPT ![p] =
                    AfterAnalyzePod(rep[p], fetched,
                        analyzePod(criteria, rep[p].pods[rep[p].idx], fetched))]
    /\ UNCHANGED <<criteria, readers, writer, pending, pc, arguments, newCriteria, ret,
                   cluster, inp, out>>

\* fault injection for C18: GeneratedAt is the time at which the call began
ReportOfStampedAtStart(r, resourceWaste) ==
    [ClusterName |-> "GKE-Cluster", Namespace |-> "default",
     GeneratedAt |-> 0,
     Summary |-> generateSummary(r.podAnalysis, resourceWaste),
     Recommendations |-> r.recommendations,
     PodAnalysis |-> r.podAnalysis,
     ResourceWaste |-> resourceWaste]

\* the OptimizationReport; GeneratedAt is time.Now() as the record is built
ReportOf(r, resourceWaste) ==
    [ClusterName |-> "GKE-Cluster", Namespace |-> "default",
     GeneratedAt |-> r.now + 1,
     Summary |-> generateSummary(r.podAnalysis, resourceWaste),
     Recommendations |-> r.recommendations,
     PodAnalysis |-> r.podAnalysis,
     ResourceWaste |-> resourceWaste]

\* after the loop: analyzeResourceWaste, generateSummary, the report record
ReportCompose(p) ==
    /\ pc[p] = "analyze"
    /\ rep[p].idx > Len(rep[p].pods)
    /\ ret' = [ret EXCEPT ![p] =
                [err |-> None,
                 val |-> Some(ReportOf(rep[p],
                            analyzeResourceWaste(criteria, rep[p].podAnalysis)))]]
    /\ rep' = [rep EXCEPT ![p].now = rep[p].now + 1]
    /\ pc' = [pc EXCEPT ![p] = "runlock"]
    /\ UNCHANGED <<criteria, readers, writer, pending, arguments, newCriteria,
                   cluster, inp, out>>

\* defer s.mu.RUnlock(), and the return to the handler
ReportRUnlock(p) ==
    /\ pc[p] = "runlock"
    /\ readers' = readers \ {p}
    /\ pc' = [pc EXCEPT ![p] = "respond"]
    /\ UNCHANGED <<criteria, writer, pending, arguments, newCriteria, rep, ret,
                   cluster, inp, out>>

\* extractTopIssues: an entry <<type, count>> for each type with high-priority
\* recommendations.  The entries come in the iteration order of a Go map, so
\* they are kept as a set; at most five are taken, and there are never more
\* than three types.
extractTopIssues(recommendations) ==
    IF \A k \in 1..Len(recommendations) : recommendations[k].Priority # PriorityHigh
    THEN {<<"no high-priority issue">>}
    ELSE {<<recommendations[j].Type,
            Cardinality({k \in 1..Len(recommendations) :
                            /\ recommendations[k].Priority = PriorityHigh
                            /\ recommendations[k].Type = recommendations[j].Type})>> :
            j \in {k \in 1..Len(recommendations) :
                      recommendations[k].Priority = PriorityHigh}}

\* generateWasteInsights; the last message is always one of three, so the
\* list is never empty
generateWasteInsights(waste) ==
    (IF Len(waste.OverProvisionedPods) > 0
     THEN << <<"over-provisioned pods", Len(waste.OverProvisionedPods)>> >> ELSE <<>>)
    \o (IF Len(waste.IdlePods) > 0
        THEN << <<"idle pods", Len(waste.IdlePods)>> >> ELSE <<>>)
    \o (IF RLt(RInt(20), waste.TotalWastage.WastePercentage)
        THEN << <<"optimize now", FormatF1(waste.TotalWastage.WastePercentage)>> >>
        ELSE IF RLt(RInt(10), waste.TotalWastage.WastePercentage)
        THEN << <<"room to optimize", FormatF1(waste.TotalWastage.WastePercentage)>> >>
        ELSE << <<"efficient">> >>)

\* generatePodOptimizationSuggestions
generatePodOptimizationSuggestions(podAnalysis) ==
    (IF WLt(podAnalysis.OptimizationScore, W(50)) THEN << <<"needs optimization">> >>
     ELSE IF WLt(podAnalysis.OptimizationScore, W(70)) THEN << <<"can improve">> >>
     ELSE << <<"running well">> >>)
    \o (IF \E k \in 1..Len(podAnalysis.Issues) :
              podAnalysis.Issues[k].Severity = PriorityHigh
        THEN [k \in 1..Len(SelectSeq(podAnalysis.Issues,
                               LAMBDA issue : issue.Severity = PriorityHigh)) |->
                 <<"high priority",
                   SelectSeq(podAnalysis.Issues,
                       LAMBDA issue : issue.Severity = PriorityHigh)[k].Suggestion>>]
        ELSE << <<"keep monitoring">> >>)

\* fault injection for C16: a Pod without analysis gets the first analysis
GetPodOptimizationAnalysisOrFirst(podName, report) ==
    IF report.PodAnalysis = <<>>
    THEN [err |-> "pod analysis not found", val |-> Nil]
    ELSE [err |-> None,
          val |-> Some(
            [PodName |-> podName, Namespace |-> "default",
             GeneratedAt |-> report.GeneratedAt,
             PodAnalysis |-> report.PodAnalysis[1],
             RelatedRecommendations |->
                SelectSeq(report.Recommendations, LAMBDA rec : rec.PodName = podName),
             OptimizationSuggestions |->
                generatePodOptimizationSuggestions(report.PodAnalysis[1])])]

\* GetPodOptimizationAnalysis, after the report has been generated: the first
\* analysis with the requested name, or an error when there is none
GetPodOptimizationAnalysis(podName, report) ==
    IF \A i \in 1..Len(report.PodAnalysis) : report.PodAnalysis[i].PodName # podName
    THEN [err |-> "pod analysis not found", val |-> Nil]
    ELSE [err |-> None,
          val |-> Some(
            [PodName |-> podName, Namespace |-> "default",
             GeneratedAt |-> report.GeneratedAt,
             PodAnalysis |->
                SelectSeq(report.PodAnalysis,
                          LAMBDA analysis : analysis.PodName = podName)[1],
             RelatedRecommendations |->
                SelectSeq(report.Recommendations, LAMBDA rec : rec.PodName = podName),
             OptimizationSuggestions |->
                generatePodOptimizationSuggestions(
                    SelectSeq(report.PodAnalysis,
                              LAMBDA analysis : analysis.PodName = podName)[1])])]

\* what the handler of q.tool returns for the report the service returned
HandlerResponse(q, report) ==
    IF q.tool = "get_optimization_summary"
    THEN [err |-> None,
          val |-> Some([ClusterName |-> report.ClusterName,
                        Namespace |-> report.Namespace,
                        GeneratedAt |-> report.GeneratedAt,
                        Summary |-> report.Summary,
                        TopIssues |-> extractTopIssues(report.Recommendations)])]
    ELSE IF q.tool = "get_optimization_recommendations"
    THEN [err |-> None,
          val |-> Some([ClusterName |-> report.ClusterName,
                        Namespace |-> report.Namespace,
                        GeneratedAt |-> report.GeneratedAt,
                        TotalCount |-> Len(report.Recommendations),
                        FilteredCount |->
                            Len(filterRecommendations(report.Recommendations,
                                    q.priority, q.recommendationType)),
                        Recommendations |->
                            filterRecommendations(report.Recommendations,
                                q.priority, q.recommendationType)])]
    ELSE IF q.tool = "get_resource_waste_analysis"
    THEN [err |-> None,
          val |-> Some([ClusterName |-> report.ClusterName,
                        Namespace |-> report.Namespace,
                        GeneratedAt |-> report.GeneratedAt,
                        ResourceWaste |-> report.ResourceWaste,
                        Insights |-> generateWasteInsights(report.ResourceWaste)])]
    ELSE IF q.tool = "get_pod_optimization_analysis"
    THEN GetPodOptimizationAnalysis(q.podName, report)
    ELSE [err |-> None, val |-> Some(report)]

\* the handler after h.service.GenerateOptimizationReport returned: an error
\* is passed on, a report becomes the tool's response
HandlerRespond(p) ==
    /\ pc[p] = "respond"
    /\ ret' = [ret EXCEPT ![p] =
                IF ret[p].err # None THEN ret[p]
                ELSE HandlerResponse(rep[p].query, ret[p].val[1])]
    /\ pc' = [pc EXCEPT ![p] = "done"]
    /\ UNCHANGED <<criteria, readers, writer, pending, arguments, newCriteria, rep,
                   cluster, inp, out>>

---------------------------------------------------------------------------
(* Handler.GetOptimizationCriteria -> Service.GetOptimizationCriteria *)

StartGet(p) ==
    /\ pc[p] = "idle"
    /\ pc' = [pc EXCEPT ![p] = "get"]
    /\ UNCHANGED <<criteria, readers, writer, pending, arguments, newCriteria, rep, ret,
                   cluster, inp, out>>

\* Service.GetOptimizationCriteria: RLock, return s.criteria, RUnlock
GetOptimizationCriteria(p) ==
    /\ pc[p] = "get"
    /\ CanRLock
    /\ ret' = [ret EXCEPT ![p] = [err |-> None, val |-> Some(criteria)]]
    /\ pc' = [pc EXCEPT ![p] = "done"]
    /\ UNCHANGED <<criteria, readers, writer, pending, arguments, newCriteria, rep,
                   cluster, inp, out>>

---------------------------------------------------------------------------
(* Handler.UpdateOptimizationCriteria -> Service.UpdateOptimizationCriteria *)

StartUpdate(p, a) ==
    /\ pc[p] = "idle"
    /\ arguments' = [arguments EXCEPT ![p] = a]
    /\ newCriteria' = [newCriteria EXCEPT ![p] = ZeroCriteria]
    /\ pc' = [pc EXCEPT ![p] = "cpuThreshold"]
    /\ UNCHANGED <<criteria, readers, writer, pending, rep, ret, cluster, inp, out>>

\* the value a field takes from its argument: int32(healthThreshold) for the
\* health threshold, the float64 itself for the others
FieldValue(field, number) ==
    IF field = "HealthThreshold" THEN Int32OfFloat64(number) ELSE number

\* fault injection for C1: an omitted field is reset to its default instead of
\* being read from the criteria in force
UpdateFieldResetting(p, arg, field, next) ==
    /\ pc[p] = arg
    /\ \/ /\ arguments[p][arg] # Nil
          /\ newCriteria' = [newCriteria EXCEPT
                                ![p][field] = FieldValue(field, arguments[p][arg][1])]
       \/ /\ arguments[p][arg] = Nil
          /\ CanRLock
          /\ newCriteria' = [newCriteria EXCEPT ![p][field] = DefaultCriteria[field]]
    /\ pc' = [pc EXCEPT ![p] = next]
    /\ UNCHANGED <<criteria, readers, writer, pending, arguments, rep, ret,
                   cluster, inp, out>>

\* one of the four if/else blocks: the argument when it is a number, else the
\* field of h.service.GetOptimizationCriteria() (RLock, read, RUnlock)
UpdateField(p, arg, field, next) ==
    /\ pc[p] = arg
    /\ \/ /\ arguments[p][arg] # Nil
          /\ newCriteria' = [newCriteria EXCEPT
                                ![p][field] = FieldValue(field, arguments[p][arg][1])]
       \/ /\ arguments[p][arg] = Nil
          /\ CanRLock
          /\ newCriteria' = [newCriteria EXCEPT ![p][field] = criteria[field]]
    /\ pc' = [pc EXCEPT ![p] = next]
    /\ UNCHANGED <<criteria, readers, writer, pending, arguments, rep, ret,
                   cluster, inp, out>>

UpdateCPUThreshold(p) == UpdateField(p, "cpuThreshold", "CPUThreshold", "memoryThreshold")
UpdateMemoryThreshold(p) ==
    UpdateField(p, "memoryThreshold", "MemoryThreshold", "healthThreshold")
UpdateHealthThreshold(p) ==
    UpdateField(p, "healthThreshold", "HealthThreshold", "idleThreshold")
UpdateIdleThreshold(p) == UpdateField(p, "idleThreshold", "IdleThreshold", "update")

\* Service.UpdateOptimizationCriteria: s.mu.Lock() is called and waits
UpdateLockCall(p) ==
    /\ pc[p] = "update"
    /\ pending' = pending \cup {p}
    /\ pc' = [pc EXCEPT ![p] = "lock"]
    /\ UNCHANGED <<criteria, readers, writer, arguments, newCriteria, rep, ret,
                   cluster, inp, out>>

\* s.mu.Lock() returns
UpdateLock(p) ==
    /\ pc[p] = "lock"
    /\ CanLock
    /\ writer' = p
    /\ pending' = pending \ {p}
    /\ pc' = [pc EXCEPT ![p] = "locked"]
    /\ UNCHANGED <<criteria, readers, arguments, newCriteria, rep, ret, cluster, inp, out>>

\* fault injection for C30: the write lock is not released
UpdateOptimizationCriteriaKeepingLock(p) ==
    /\ pc[p] = "locked"
    /\ criteria' = newCriteria[p]
    /\ writer' = writer
    /\ ret' = [ret EXCEPT ![p] = [err |-> None, val |-> Some(newCriteria[p])]]
    /\ pc' = [pc EXCEPT ![p] = "done"]
    /\ UNCHANGED <<readers, pending, arguments, newCriteria, rep, cluster, inp, out>>

\* s.criteria = criteria; defer s.mu.Unlock(); the handler's response
UpdateOptimizationCriteria(p) ==
    /\ pc[p] = "locked"
    /\ criteria' = newCriteria[p]
    /\ writer' = None
    /\ ret' = [ret EXCEPT ![p] = [err |-> None, val |-> Some(newCriteria[p])]]
    /\ pc' = [pc EXCEPT ![p] = "done"]
    /\ UNCHANGED <<readers, pending, arguments, newCriteria, rep, cluster, inp, out>>

---------------------------------------------------------------------------
(* the caller receives the result and may call again *)

Return(p) ==
    /\ pc[p] = "done"
    /\ pc' = [pc EXCEPT ![p] = "idle"]
    /\ ret' = [ret EXCEPT ![p] = NoResult]
    /\ rep' = [rep EXCEPT ![p] = NoReport]
    /\ arguments' = [arguments EXCEPT ![p] = NoArguments]
    /\ newCriteria' = [newCriteria EXCEPT ![p] = ZeroCriteria]
    /\ UNCHANGED <<criteria, readers, writer, pending, cluster, inp, out>>

---------------------------------------------------------------------------
(* the service with concurrent callers *)

\* no call is under way
Quiescent ==
    /\ readers = {}
    /\ writer = None
    /\ pending = {}
    /\ pc = [p \in Callers |-> "idle"]
    /\ arguments = [p \in Callers |-> NoArguments]
    /\ newCriteria = [p \in Callers |-> ZeroCriteria]
    /\ rep = [p \in Callers |-> NoReport]
    /\ ret = [p \in Callers |-> NoResult]

\* NewServiceWithLogger: the default criteria
Init ==
    /\ criteria = DefaultCriteria
    /\ Quiescent
    /\ cluster \in Clusters
    /\ inp = NoInput
    /\ out = Nil

\* the steps of a call that is under way
Running(p) ==
    \/ ReportRLock(p)
    \/ ReportGetAllPods(p)
    \/ ReportAnalyzePod(p)
    \/ ReportCompose(p)
    \/ ReportRUnlock(p)
    \/ HandlerRespond(p)
    \/ GetOptimizationCriteria(p)
    \/ UpdateCPUThreshold(p)
    \/ UpdateMemoryThreshold(p)
    \/ UpdateHealthThreshold(p)
    \/ UpdateIdleThreshold(p)
    \/ UpdateLockCall(p)
    \/ UpdateLock(p)
    \/ UpdateOptimizationCriteria(p)
    \/ Return(p)

\* the server handles each request on its own goroutine: calls overlap freely
Next ==
    \E p \in Callers :
        \/ StartReport(p, NoReport.query)
        \/ StartGet(p)
        \/ \E a \in OverlappingArguments : StartUpdate(p, a)
        \/ Running(p)

Spec == Init /\ [][Next]_vars

\* The calls overlapping over a namespace of one Pod, under fair scheduling.
\* The goroutine of a call that can take a step takes one, and a call blocked
\* in RLock or Lock gets the lock if it is free again and again: the runtime
\* schedules every runnable goroutine, and sync.RWMutex hands the lock on
\* to the callers blocked on it. A report under way finishes its analysis
\* loop. Callers are not obliged to start calls.
FairInit == Init /\ Len(cluster) = 1

FairSpec ==
    /\ FairInit
    /\ [][Next]_vars
    /\ \A p \in Callers :
          /\ SF_vars(pc[p] # "analyze" /\ Running(p))
          /\ []<>(pc[p] # "analyze")

---------------------------------------------------------------------------
(* the service with one call at a time (the synchronous request/response use) *)

OthersIdle(p) == \A q \in Callers \ {p} : pc[q] = "idle"

SeqNext ==
    \E p \in Callers :
        \/ OthersIdle(p) /\ \E q \in Queries : StartReport(p, q)
        \/ OthersIdle(p) /\ StartGet(p)
        \/ OthersIdle(p) /\ \E a \in UpdateArguments : StartUpdate(p, a)
        \/ Running(p)

SeqSpec == Init /\ [][SeqNext]_vars

---------------------------------------------------------------------------
(* direct calls of the analysis functions, on inputs drawn from bounded sets *)

\* all sequences over S of length at most n
SeqsUpTo(S, n) == UNION {[1..k -> S] : k \in 0..n}

\* Handler.UpdateOptimizationCriteria run alone on the criteria current: each
\* field is the argument when supplied, else current's field
CriteriaAfterUpdate(current, a) ==
    [CPUThreshold |->
        IF a.cpuThreshold # Nil THEN FieldValue("CPUThreshold", a.cpuThreshold[1])
        ELSE current.CPUThreshold,
     MemoryThreshold |->
        IF a.memoryThreshold # Nil THEN FieldValue("MemoryThreshold", a.memoryThreshold[1])
        ELSE current.MemoryThreshold,
     HealthThreshold |->
        IF a.healthThreshold # Nil THEN FieldValue("HealthThreshold", a.healthThreshold[1])
        ELSE current.HealthThreshold,
     IdleThreshold |->
        IF a.idleThreshold # Nil THEN FieldValue("IdleThreshold", a.idleThreshold[1])
        ELSE current.IdleThreshold]

\* update requests that move the utilization thresholds to 0, past each other
\* and past the fixed 80, and the health threshold to 0 and to the least int32
ThresholdArguments ==
    [cpuThreshold : {Nil, Some(RInt(15)), Some(RInt(90))},
     memoryThreshold : {Nil, Some(RInt(40))},
     healthThreshold : {Nil, Some(RInt(0)), Some(RInt(MinInt32))},
     idleThreshold : {Nil, Some(RInt(0)), Some(RInt(10)), Some(RInt(25))}]

\* update requests that move the health threshold only
HealthArguments ==
    [cpuThreshold : {Nil}, memoryThreshold : {Nil},
     healthThreshold : {Nil, Some(RInt(0)), Some(RInt(3)), Some(RInt(-1)),
                        Some(RInt(MinInt32))},
     idleThreshold : {Nil}]

\* ---- analyzeResourceMetric

MetricInputs ==
    [fn : {"analyzeResourceMetric"},
     current : {<<>>, Qty["8m"], Qty["10m"], Qty["40m"], Qty["60m"], Qty["160m"],
                Qty["162m"], Qty["500m"], Qty["256Mi"], Qty["1.5GI"], Qty["abc"]},
     request : {<<>>},
     limit : {<<>>, Qty["200m"], Qty["1Gi"], Qty["abc"]},
     resourceType : {"CPU", "MEMORY"}]

MetricInit ==
    /\ Quiescent
    /\ cluster = <<>>
    /\ criteria \in {CriteriaAfterUpdate(DefaultCriteria, a) : a \in ThresholdArguments}
    /\ inp \in MetricInputs
    /\ out = Nil

CallAnalyzeResourceMetric ==
    /\ inp.fn = "analyzeResourceMetric"
    /\ out = Nil
    /\ out' = Some(analyzeResourceMetric(criteria, inp.current, inp.request,
                                         inp.limit, inp.resourceType))
    /\ UNCHANGED <<criteria, readers, writer, pending, pc, arguments, newCriteria,
                   rep, ret, cluster, inp>>

MetricNext == CallAnalyzeResourceMetric

MetricSpec == MetricInit /\ [][MetricNext]_vars

\* ---- analyzePod, then generatePodRecommendations (the body of the report's loop)

ContainerInputs ==
    {Container("app", ready, restart) :
        ready \in BOOLEAN, restart \in {0, 8, MaxInt32}}

PodInputs ==
    [Name : {"web"}, Namespace : {"default"}, Status : {"Running", "Pending"},
     Ready : BOOLEAN, Containers : SeqsUpTo(ContainerInputs, MaxContainers)]

\* snapshots whose CPU and memory are each over-provisioned, optimal or
\* under-provisioned under the default thresholds
UsageInputs ==
    {[CPU |-> MetricUsage(cpu, Qty["200m"]), Memory |-> MetricUsage(mem, Qty["1Gi"]),
      Disk |-> [Used |-> Qty["500Mi"], Total |-> Qty["2Gi"]]] :
        cpu \in {Qty["10m"], Qty["60m"], Qty["162m"]},
        mem \in {Qty["256Mi"], Qty["512Mi"], Qty["1.5GI"]}}

AnalyzePodInputs ==
    [fn : {"analyzePod"}, pod : PodInputs,
     fetched : {Some(u) : u \in UsageInputs} \cup {Nil}]

PodInit ==
    /\ Quiescent
    /\ cluster = <<>>
    /\ criteria \in {CriteriaAfterUpdate(DefaultCriteria, a) : a \in HealthArguments}
    /\ inp \in AnalyzePodInputs
    /\ out = Nil

CallAnalyzePod ==
    /\ inp.fn = "analyzePod"
    /\ out = Nil
    /\ out' = Some([podOpt |-> analyzePod(criteria, inp.pod, inp.fetched).podOpt,
                    recommendations |-> Nil, filtered |-> Nil])
    /\ UNCHANGED <<criteria, readers, writer, pending, pc, arguments, newCriteria,
                   rep, ret, cluster, inp>>

CallGeneratePodRecommendations ==
    /\ inp.fn = "analyzePod"
    /\ out # Nil
    /\ out[1].recommendations = Nil
    /\ out' = Some([out[1] EXCEPT
                        !.recommendations = Some(generatePodRecommendations(out[1].podOpt))])
    /\ UNCHANGED <<criteria, readers, writer, pending, pc, arguments, newCriteria,
                   rep, ret, cluster, inp>>

\* filterRecommendations, on priority and type arguments of
\* get_optimization_recommendations
CallFilterRecommendations ==
    /\ inp.fn = "analyzePod"
    /\ out # Nil
    /\ out[1].recommendations # Nil
    /\ out[1].filtered = Nil
    /\ \E f \in {[priority |-> "", recommendationType |-> t] :
                    t \in {RecommendationStorage, RecommendationReplica,
                           RecommendationSecurity, RecommendationHealth}}
                \cup {[priority |-> PriorityHigh, recommendationType |-> ""]} :
          out' = Some([out[1] EXCEPT
                        !.filtered =
                            Some([priority |-> f.priority,
                                  recommendationType |-> f.recommendationType,
                                  recommendations |->
                                      filterRecommendations(out[1].recommendations[1],
                                          f.priority, f.recommendationType)])])
    /\ UNCHANGED <<criteria, readers, writer, pending, pc, arguments, newCriteria,
                   rep, ret, cluster, inp>>

PodNext ==
    \/ CallAnalyzePod
    \/ CallGeneratePodRecommendations
    \/ CallFilterRecommendations

PodSpec == PodInit /\ [][PodNext]_vars

\* ---- calculateOptimizationScore

IssueInputs ==
    {[Type |-> CPU_OVER_PROVISIONED, Severity |-> severity,
      Description |-> <<>>, Suggestion |-> <<>>] :
        severity \in {PriorityHigh, PriorityMedium, PriorityLow}}

ScoreInputs ==
    [fn : {"calculateOptimizationScore"},
     resourceAnalysis : {analyzeResourceUsage(DefaultCriteria, EmptyUsage)},
     healthStatus : {[Ready |-> TRUE, RestartCount |-> 0, HealthScore |-> W(h),
                      HealthIssues |-> <<>>] : h \in {0, 30, 70, 100}},
     issues : SeqsUpTo(IssueInputs, MaxIssues)]

ScoreInit ==
    /\ Quiescent
    /\ cluster = <<>>
    /\ criteria = DefaultCriteria
    /\ inp \in ScoreInputs
    /\ out = Nil

CallCalculateOptimizationScore ==
    /\ inp.fn = "calculateOptimizationScore"
    /\ out = Nil
    /\ out' = Some(calculateOptimizationScore(inp.resourceAnalysis, inp.healthStatus,
                                              inp.issues))
    /\ UNCHANGED <<criteria, readers, writer, pending, pc, arguments, newCriteria,
                   rep, ret, cluster, inp>>

ScoreNext == CallCalculateOptimizationScore

ScoreSpec == ScoreInit /\ [][ScoreNext]_vars

\* ---- analyzeResourceWaste and generateSummary

\* the i-th Pod of the namespace: running, ready, never restarted
PodAt(i) ==
    [Name |-> <<"p1", "p2", "p3">>[i], Namespace |-> "default", Status |-> "Running",
     Ready |-> TRUE, Containers |-> <<Container("app", TRUE, 0)>>]

\* The analyses of up to MaxPods Pods, as analyzePod gives them under the
\* criteria, for snapshots whose CPU is at 4, 5, 10, 30 or 250 per cent of
\* the limit and whose memory at about 3, 25 or 50 per cent, or whose fetch
\* failed; the criteria are the defaults or have cpuThreshold 300.
WasteInit ==
    /\ Quiescent
    /\ cluster = <<>>
    /\ criteria \in
          {CriteriaAfterUpdate(DefaultCriteria, a) :
              a \in [cpuThreshold : {Nil, Some(RInt(300))}, memoryThreshold : {Nil},
                     healthThreshold : {Nil},
                     idleThreshold : {Nil, Some(RInt(0)), Some(RInt(10))}]}
    /\ \E fetched \in
            SeqsUpTo({Nil} \cup
                     {Some([CPU |-> MetricUsage(cpu, Qty["200m"]),
                            Memory |-> MetricUsage(mem, Qty["1Gi"]),
                            Disk |-> [Used |-> Qty["500Mi"], Total |-> Qty["2Gi"]]]) :
                         cpu \in {Qty["8m"], Qty["10m"], Qty["20m"], Qty["60m"],
                                  Qty["500m"]},
                         mem \in {Qty["32Mi"], Qty["256Mi"], Qty["512Mi"]}},
                     MaxPods) :
          inp = [fn |-> "analyzeResourceWaste",
                 podAnalyses |->
                    [i \in 1..Len(fetched) |->
                        analyzePod(criteria, PodAt(i), fetched[i]).podOpt]]
    /\ out = Nil

CallAnalyzeResourceWaste ==
    /\ inp.fn = "analyzeResourceWaste"
    /\ out = Nil
    /\ out' = Some([resourceWaste |-> analyzeResourceWaste(criteria, inp.podAnalyses),
                    summary |-> Nil])
    /\ UNCHANGED <<criteria, readers, writer, pending, pc, arguments, newCriteria,
                   rep, ret, cluster, inp>>

CallGenerateSummary ==
    /\ inp.fn = "analyzeResourceWaste"
    /\ out # Nil
    /\ out[1].summary = Nil
    /\ out' = Some([out[1] EXCEPT
                        !.summary =
                            Some(generateSummary(inp.podAnalyses, out[1].resourceWaste))])
    /\ UNCHANGED <<criteria, readers, writer, pending, pc, arguments, newCriteria,
                   rep, ret, cluster, inp>>

WasteNext == CallAnalyzeResourceWaste \/ CallGenerateSummary

WasteSpec == WasteInit /\ [][WasteNext]_vars

---------------------------------------------------------------------------
\* ---- parseResourceValue and calculateUtilization

\* Quantity strings: a number part (empty, whole, fractional, signed, a bare
\* sign, malformed) followed by a suffix (none, m, Mi and Gi in either case, or
\* a unit the function does not know); and pairs (current, limit) whose limit
\* is empty, the placeholder, zero in several spellings, unreadable or positive.
ParseInit ==
    /\ Quiescent
    /\ cluster = <<>>
    /\ criteria = DefaultCriteria
    /\ inp \in [fn : {"calculateUtilization"},
                current : {<<>>, <<"0">>, Qty["10m"], Qty["200m"], Qty["500m"],
                           Qty["abc"], Qty["1.5GI"], <<"-", "5", "m">>},
                limit : {<<>>, <<"-">>, <<"0">>, <<"0", "m">>, <<"0", ".", "0", "G", "i">>,
                         Qty["abc"], Qty["200m"], Qty["1Gi"]}]
         \cup
               [fn : {"parseResourceValue"},
                number : {<<>>, <<"0">>, <<"1">>, <<"5">>, <<"1", "5", "0">>,
                          <<"2", "5", "6">>, <<"1", ".", "5">>, <<".", "5">>,
                          <<"-", "5">>, <<"+", "2">>, <<"-">>, <<"1", ".", "2", ".", "3">>,
                          <<"a", "b", "c">>},
                suffix : {<<>>, <<"m">>, <<"M">>, <<"M", "i">>, <<"m", "i">>,
                          <<"M", "I">>, <<"G", "i">>, <<"g", "I">>, <<"K", "i">>}]
    /\ out = Nil

CallParseResourceValue ==
    /\ inp.fn = "parseResourceValue"
    /\ out = Nil
    /\ out' = Some(parseResourceValue(inp.number \o inp.suffix))
    /\ UNCHANGED <<criteria, readers, writer, pending, pc, arguments, newCriteria,
                   rep, ret, cluster, inp>>

CallCalculateUtilization ==
    /\ inp.fn = "calculateUtilization"
    /\ out = Nil
    /\ out' = Some(calculateUtilization(inp.current, inp.limit))
    /\ UNCHANGED <<criteria, readers, writer, pending, pc, arguments, newCriteria,
                   rep, ret, cluster, inp>>

ParseNext == CallParseResourceValue \/ CallCalculateUtilization

ParseSpec == ParseInit /\ [][ParseNext]_vars

---------------------------------------------------------------------------
(* C1: the frame of an update *)

UpdatePcs == {"cpuThreshold", "memoryThreshold", "healthThreshold", "idleThreshold",
              "update", "lock", "locked"}

\* the stored criteria after caller p's write: each field is the supplied
\* number (the whole number, for the integer health threshold), or else the
\* field's value before
C1_Frame(p) ==
    /\ criteria'.CPUThreshold =
          IF arguments[p].cpuThreshold # Nil THEN arguments[p].cpuThreshold[1]
          ELSE criteria.CPUThreshold
    /\ criteria'.MemoryThreshold =
          IF arguments[p].memoryThreshold # Nil THEN arguments[p].memoryThreshold[1]
          ELSE criteria.MemoryThreshold
    /\ criteria'.HealthThreshold =
          IF arguments[p].healthThreshold # Nil THEN arguments[p].healthThreshold[1].n
          ELSE criteria.HealthThreshold
    /\ criteria'.IdleThreshold =
          IF arguments[p].idleThreshold # Nil THEN arguments[p].idleThreshold[1]
          ELSE criteria.IdleThreshold

\* C1: with one call at a time, the stored criteria stay as they were from the
\* start of an updateCriteria call up to its write, and the write sets exactly
\* the supplied fields to the supplied values and leaves every omitted field
\* at the value it had before the call, whatever updates came earlier.
C1_UpdateKeepsOmittedFields ==
    [][\A p \in Callers :
          pc[p] \in UpdatePcs =>
              IF pc[p] = "locked" /\ pc'[p] = "done" THEN C1_Frame(p)
              ELSE criteria' = criteria]_vars

\* an update that supplied the memory threshold only has returned, and the CPU
\* and idle thresholds still have the non-default values of an earlier update
C1_Witness ==
    \E p \in Callers :
        /\ pc[p] = "done"
        /\ arguments[p].memoryThreshold # Nil
        /\ arguments[p].cpuThreshold = Nil
        /\ arguments[p].idleThreshold = Nil
        /\ arguments[p].healthThreshold = Nil
        /\ criteria.MemoryThreshold = arguments[p].memoryThreshold[1]
        /\ criteria.CPUThreshold = RInt(15)
        /\ criteria.IdleThreshold = RInt(10)
        /\ criteria.HealthThreshold = 3

---------------------------------------------------------------------------
(* C2: reports and criteria writes exclude each other *)

\* the callers inside GenerateOptimizationReport, between RLock and RUnlock
InReport == {p \in Callers : pc[p] \in {"list", "analyze", "runlock"}}

\* C2: while any report is between its start (the read lock taken) and its end
\* (the read lock released), no step changes the stored criteria, so every
\* threshold read of that report sees the same record; and no writer holds the
\* lock while a report does.
C2_NoWriteDuringReport ==
    [][(InReport # {} => criteria' = criteria)
       /\ (writer # None => InReport = {})]_vars

\* a report is analysing Pods while another caller's update, with other
\* thresholds than the stored ones, waits for the exclusive lock
C2_Witness ==
    \E p \in Callers, q \in Callers :
        /\ pc[p] = "analyze"
        /\ rep[p].idx > 1
        /\ pc[q] = "lock"
        /\ newCriteria[q] # criteria

\* two reports are in progress at the same time
C2_TwoReports == \A p \in Callers : pc[p] = "analyze" /\ rep[p].idx > 1

---------------------------------------------------------------------------
(* C3: the range of the scores *)

WithinRange(score) == WLe(W(0), score) /\ WLe(score, W(100))

\* C3: for every Pod and under every criteria an update can install, the
\* health score of analyzeHealthStatus and the optimization score of
\* calculateOptimizationScore both lie in [0, 100].
C3_ScoresWithinRange ==
    out # Nil =>
        /\ WithinRange(out[1].podOpt.HealthStatus.HealthScore)
        /\ WithinRange(out[1].podOpt.OptimizationScore)

---------------------------------------------------------------------------
(* C4: empty and unreadable quantities *)

\* a non-empty string none of parseResourceValue's forms reads as a number
Unparsable(value) ==
    /\ value \notin {<<>>, <<"-">>}
    /\ ParseFloat(ToLower(value)).err
    /\ \A suffix \in {<<"m">>, <<"m", "i">>, <<"g", "i">>} :
          HasSuffix(ToLower(value), suffix) =>
              ParseFloat(TrimSuffix(ToLower(value), suffix)).err

\* the status the threshold rules give to a utilization of 0
StatusOfZero(c, resourceType) ==
    IF RLt(RInt(0), c.IdleThreshold) THEN "IDLE"
    ELSE IF resourceType = "CPU" /\ RLt(RInt(0), c.CPUThreshold) THEN "OVER_PROVISIONED"
    ELSE IF resourceType = "MEMORY" /\ RLt(RInt(0), c.MemoryThreshold)
    THEN "OVER_PROVISIONED"
    ELSE "OPTIMAL"

\* C4 as stated: the status is UNKNOWN whenever the limit or the current value
\* is empty or cannot be parsed, whatever the thresholds.
C4_UnknownWhenEmptyOrUnparsable ==
    out # Nil =>
        ((inp.limit = <<>> \/ inp.current = <<>>
            \/ Unparsable(inp.limit) \/ Unparsable(inp.current))
         => out[1].Status = "UNKNOWN")

\* C4, amended: the status is UNKNOWN exactly when the limit or the current
\* value is the empty string, whatever the thresholds; a non-empty limit or
\* current value that cannot be parsed counts as 0, so the utilization is 0 and
\* the status is the one the threshold rules give to 0.
C4_UnknownIffEmpty ==
    out # Nil =>
        /\ out[1].Status = "UNKNOWN" <=> (inp.limit = <<>> \/ inp.current = <<>>)
        /\ (inp.limit # <<>> /\ inp.current # <<>>
            /\ (Unparsable(inp.limit) \/ Unparsable(inp.current)))
           => /\ out[1].Utilization = RInt(0)
              /\ out[1].Status = StatusOfZero(criteria, inp.resourceType)

\* a metric with a readable current value and an unreadable limit has been
\* classified under the default criteria: as IDLE, not as UNKNOWN
C4_Witness ==
    /\ out # Nil
    /\ criteria = DefaultCriteria
    /\ inp.current = Qty["10m"]
    /\ Unparsable(inp.limit)
    /\ out[1].Status = "IDLE"

---------------------------------------------------------------------------
(* C5: the order of the classification rules *)

\* the first matching rule, in the order of the claim
FirstMatch(c, utilization, resourceType) ==
    IF RLt(utilization, c.IdleThreshold) THEN "IDLE"
    ELSE IF resourceType = "CPU" /\ RLt(utilization, c.CPUThreshold)
    THEN "OVER_PROVISIONED"
    ELSE IF resourceType = "MEMORY" /\ RLt(utilization, c.MemoryThreshold)
    THEN "OVER_PROVISIONED"
    ELSE IF RLt(RInt(80), utilization) THEN "UNDER_PROVISIONED"
    ELSE "OPTIMAL"

\* the threshold of the over-provisioning rule of a dimension
OverThreshold(c, resourceType) ==
    IF resourceType = "CPU" THEN c.CPUThreshold ELSE c.MemoryThreshold

ClassifiedInOrder(c, utilization, resourceType, status) ==
    /\ status = FirstMatch(c, utilization, resourceType)
    /\ utilization = c.IdleThreshold => status # "IDLE"
    /\ utilization = OverThreshold(c, resourceType) => status # "OVER_PROVISIONED"
    /\ utilization = RInt(80) => status # "UNDER_PROVISIONED"
    /\ (/\ utilization = RInt(80)
        /\ RLe(c.IdleThreshold, RInt(80))
        /\ RLe(OverThreshold(c, resourceType), RInt(80)))
       => status = "OPTIMAL"

\* C5: for a non-empty current value and limit the status is the one of the
\* first matching rule in the order IDLE (utilization < idleThreshold),
\* OVER_PROVISIONED (CPU below cpuThreshold, memory below memoryThreshold),
\* UNDER_PROVISIONED (utilization > 80), else OPTIMAL; the comparisons are
\* strict (a utilization equal to a threshold does not match its rule, and 80
\* is OPTIMAL once no earlier rule matches it); CPU 10m of 200m under the
\* default criteria is OVER_PROVISIONED.
C5_ClassificationOrder ==
    (out # Nil /\ inp.current # <<>> /\ inp.limit # <<>>) =>
        /\ ClassifiedInOrder(criteria, calculateUtilization(inp.current, inp.limit),
                             inp.resourceType, out[1].Status)
        /\ (/\ criteria = DefaultCriteria
            /\ inp.resourceType = "CPU"
            /\ inp.current = Qty["10m"]
            /\ inp.limit = Qty["200m"])
           => out[1].Status = "OVER_PROVISIONED"

\* CPU 10m of 200m, a utilization equal to the default idle threshold, has
\* been classified under the default criteria
C5_Witness ==
    /\ out # Nil
    /\ criteria = DefaultCriteria
    /\ inp.resourceType = "CPU"
    /\ inp.current = Qty["10m"]
    /\ inp.limit = Qty["200m"]
    /\ out[1].Utilization = criteria.IdleThreshold
    /\ out[1].Status = "OVER_PROVISIONED"

\* a utilization of exactly 80 has been classified OPTIMAL
C5_Eighty ==
    /\ out # Nil
    /\ inp.current = Qty["160m"]
    /\ inp.limit = Qty["200m"]
    /\ out[1].Utilization = RInt(80)
    /\ out[1].Status = "OPTIMAL"

---------------------------------------------------------------------------
(* C6: a failed usage fetch *)

\* the callers whose report has listed the Pods and is composed
Composed == {p \in Callers : pc[p] = "runlock" /\ rep[p].idx > 0}

\* the report lists an analysis for every listed Pod, in list order; each is
\* what analyzePod makes of that Pod and of that Pod's own fetch alone; a Pod
\* whose fetch failed has UNKNOWN CPU and memory metrics
AllPodsAnalyzed(pods, fetched, report) ==
    /\ Len(report.PodAnalysis) = Len(pods)
    /\ \A i \in 1..Len(pods) :
          /\ report.PodAnalysis[i].PodName = pods[i].Name
          /\ report.PodAnalysis[i] = analyzePod(criteria, pods[i], fetched[i]).podOpt
          /\ fetched[i] = Nil =>
                /\ report.PodAnalysis[i].ResourceAnalysis.CPU.Status = "UNKNOWN"
                /\ report.PodAnalysis[i].ResourceAnalysis.Memory.Status = "UNKNOWN"
          /\ report.PodAnalysis[i].HealthStatus = analyzeHealthStatus(criteria, pods[i])

\* C6: once listPods has succeeded the report succeeds whichever usage fetches
\* fail, and it holds an analysis of every listed Pod, in list order; a Pod
\* whose fetch failed is analyzed from the empty snapshot (CPU and memory
\* UNKNOWN), and every Pod's analysis, issues and score depend on that Pod and
\* its own fetch only, not on the fetches of the other Pods.
C6_ReportSurvivesFetchFailure ==
    \A p \in Composed :
        /\ ret[p].err = None
        /\ ret[p].val # Nil
        /\ AllPodsAnalyzed(rep[p].pods, rep[p].fetched, ret[p].val[1])

\* a report over two Pods is composed, the first Pod's usage fetch has failed
\* and the second's has succeeded
C6_Witness ==
    \E p \in Composed :
        /\ Len(rep[p].pods) = 2
        /\ rep[p].fetched[1] = Nil
        /\ rep[p].fetched[2] # Nil
        /\ Len(ret[p].val[1].PodAnalysis) = 2
        /\ ret[p].val[1].PodAnalysis[2].ResourceAnalysis.CPU.Status # "UNKNOWN"

---------------------------------------------------------------------------
(* C7: the issue rules *)

IssueTypes ==
    {CPU_OVER_PROVISIONED, CPU_UNDER_PROVISIONED, MEMORY_OVER_PROVISIONED,
     MEMORY_UNDER_PROVISIONED, HIGH_RESTART_COUNT, POD_NOT_READY}

\* exactly one issue of this type and severity when the rule's condition
\* holds, and none of this type otherwise
OneIssueIff(issues, condition, type, severity) ==
    /\ Cardinality({k \in 1..Len(issues) : issues[k].Type = type})
          = IF condition THEN 1 ELSE 0
    /\ \A k \in 1..Len(issues) : issues[k].Type = type => issues[k].Severity = severity

IssueRules(c, pod, podOpt) ==
    /\ \A k \in 1..Len(podOpt.Issues) : podOpt.Issues[k].Type \in IssueTypes
    /\ OneIssueIff(podOpt.Issues, podOpt.ResourceAnalysis.CPU.Status = "OVER_PROVISIONED",
                   CPU_OVER_PROVISIONED, PriorityMedium)
    /\ OneIssueIff(podOpt.Issues, podOpt.ResourceAnalysis.CPU.Status = "UNDER_PROVISIONED",
                   CPU_UNDER_PROVISIONED, PriorityHigh)
    /\ OneIssueIff(podOpt.Issues,
                   podOpt.ResourceAnalysis.Memory.Status = "OVER_PROVISIONED",
                   MEMORY_OVER_PROVISIONED, PriorityMedium)
    /\ OneIssueIff(podOpt.Issues,
                   podOpt.ResourceAnalysis.Memory.Status = "UNDER_PROVISIONED",
                   MEMORY_UNDER_PROVISIONED, PriorityHigh)
    /\ OneIssueIff(podOpt.Issues, podOpt.HealthStatus.RestartCount > c.HealthThreshold,
                   HIGH_RESTART_COUNT, PriorityHigh)
    /\ OneIssueIff(podOpt.Issues, ~pod.Ready, POD_NOT_READY, PriorityHigh)

\* a Pod with 0 restarts, ready and Running, with OPTIMAL CPU and memory
Untroubled(pod, podOpt) ==
    /\ podOpt.HealthStatus.RestartCount = 0
    /\ pod.Ready
    /\ pod.Status = "Running"
    /\ podOpt.ResourceAnalysis.CPU.Status = "OPTIMAL"
    /\ podOpt.ResourceAnalysis.Memory.Status = "OPTIMAL"

\* C7 as stated: the issues are exactly those of the six rules, each evaluated
\* on its own, and a Pod with 0 restarts, ready and Running, with OPTIMAL
\* metrics has no issue.
C7_IssueRulesAndUntroubledPod ==
    out # Nil =>
        /\ IssueRules(criteria, inp.pod, out[1].podOpt)
        /\ Untroubled(inp.pod, out[1].podOpt) => out[1].podOpt.Issues = <<>>

\* C7, amended: the issues are exactly those of the six rules (CPU
\* OVER_PROVISIONED one MEDIUM, CPU UNDER_PROVISIONED one HIGH, the same for
\* memory, restart count > healthThreshold one HIGH, Pod not ready one HIGH),
\* each evaluated on its own; a Pod with 0 restarts, ready and Running, with
\* OPTIMAL metrics has no issue when healthThreshold >= 0, and exactly the
\* restart issue when healthThreshold < 0.
C7_IssueRules ==
    out # Nil =>
        /\ IssueRules(criteria, inp.pod, out[1].podOpt)
        /\ (Untroubled(inp.pod, out[1].podOpt) /\ criteria.HealthThreshold >= 0)
           => out[1].podOpt.Issues = <<>>
        /\ (Untroubled(inp.pod, out[1].podOpt) /\ criteria.HealthThreshold < 0)
           => /\ Len(out[1].podOpt.Issues) = 1
              /\ out[1].podOpt.Issues[1].Type = HIGH_RESTART_COUNT

\* a Pod has been analyzed for which four rules fire at once: CPU
\* over-provisioned, memory under-provisioned, restarts above the threshold,
\* not ready
C7_Witness ==
    /\ out # Nil
    /\ Len(out[1].podOpt.Issues) = 4
    /\ out[1].podOpt.Issues[1].Type = CPU_OVER_PROVISIONED
    /\ out[1].podOpt.Issues[2].Type = MEMORY_UNDER_PROVISIONED
    /\ out[1].podOpt.Issues[3].Type = HIGH_RESTART_COUNT
    /\ out[1].podOpt.Issues[4].Type = POD_NOT_READY

\* a Pod with 0 restarts, ready and Running, with OPTIMAL metrics has been
\* analyzed under the default criteria and has no issue
C7_UntroubledUnderDefaults ==
    /\ out # Nil
    /\ criteria = DefaultCriteria
    /\ Untroubled(inp.pod, out[1].podOpt)
    /\ out[1].podOpt.Issues = <<>>

---------------------------------------------------------------------------
(* C8: the optimization score *)

\* the number of issues of a severity
CountOf(issues, severity) ==
    Cardinality({k \in 1..Len(issues) : issues[k].Severity = severity})

\* 100 - 20*H - 10*M - 5*L
Penalized(issues) ==
    100 - 20 * CountOf(issues, PriorityHigh) - 10 * CountOf(issues, PriorityMedium)
        - 5 * CountOf(issues, PriorityLow)

\* a score in halves
Halves(score) == score.hi * WBase + score.lo

Max(a, b) == IF a > b THEN a ELSE b

\* C8: the optimization score is max(0, ((100 - 20*H - 10*M - 5*L) +
\* healthScore) / 2) for H HIGH, M MEDIUM and L LOW issues.  (In halves: twice
\* the score is max(0, penalized + healthScore).)
C8_ScoreFormula ==
    out # Nil =>
        Halves(out[1])
            = Max(0, Penalized(inp.issues) + Halves(inp.healthStatus.HealthScore) \div 2)

\* a score has been computed from issues of all three severities
C8_Witness ==
    /\ out # Nil
    /\ CountOf(inp.issues, PriorityHigh) = 1
    /\ CountOf(inp.issues, PriorityMedium) = 1
    /\ CountOf(inp.issues, PriorityLow) = 1
    /\ inp.healthStatus.HealthScore = W(70)
    /\ Halves(out[1]) = 135

\* a score has been clamped to 0
C8_Clamped ==
    /\ out # Nil
    /\ Penalized(inp.issues) + Halves(inp.healthStatus.HealthScore) \div 2 < 0
    /\ out[1] = W(0)

---------------------------------------------------------------------------
(* C9: the health score *)

\* an int32 as a score
WOfInt32(d) == WOfInt32Times(d, 1)

\* k times a score, for a small k > 0
WTimes(a, k) == [hi |-> a.hi * k + (a.lo * k) \div WBase, lo |-> (a.lo * k) % WBase]

\* the sum of the containers' restart counts, as a number (not an int32)
RECURSIVE SumOfRestarts(_)
SumOfRestarts(containers) ==
    IF containers = <<>> THEN W(0)
    ELSE WAdd(WOfInt32(Head(containers).Restart), SumOfRestarts(Tail(containers)))

\* P = (totalRestarts - healthThreshold) * 10 if totalRestarts > healthThreshold
RestartPenalty(totalRestarts, healthThreshold) ==
    IF WLt(healthThreshold, totalRestarts)
    THEN WTimes(WSub(totalRestarts, healthThreshold), 10)
    ELSE W(0)

\* max(0, 100 - P - R - S)
HealthFormula(c, pod) ==
    FloorAtZero(
        WSub(WSub(WSub(W(100),
                       RestartPenalty(SumOfRestarts(pod.Containers),
                                      WOfInt32(c.HealthThreshold))),
                  IF pod.Ready THEN W(0) ELSE W(30)),
             IF pod.Status = "Running" THEN W(0) ELSE W(40)))

\* C9: the health score is max(0, 100 - P - R - S), with totalRestarts the sum
\* of the containers' restart counts, P = (totalRestarts - healthThreshold) * 10
\* if totalRestarts > healthThreshold and 0 otherwise, R = 30 if the Pod is not
\* ready, S = 40 if its status is not Running; 8 restarts with threshold 5,
\* ready and Running, give 70.
C9_HealthScoreFormula ==
    out # Nil =>
        /\ out[1].podOpt.HealthStatus.HealthScore = HealthFormula(criteria, inp.pod)
        /\ (/\ criteria.HealthThreshold = 5
            /\ SumOfRestarts(inp.pod.Containers) = W(8)
            /\ inp.pod.Ready
            /\ inp.pod.Status = "Running")
           => out[1].podOpt.HealthStatus.HealthScore = W(70)

\* no int32 operation of analyzeHealthStatus leaves the int32 range: neither
\* the sum of the restart counts nor its difference with the threshold
FitsInt32(score) == WLe(WOfInt32(MinInt32), score) /\ WLe(score, WOfInt32(MaxInt32))

NoWrap(c, pod) ==
    /\ \A n \in 1..Len(pod.Containers) :
          FitsInt32(SumOfRestarts(SubSeq(pod.Containers, 1, n)))
    /\ FitsInt32(WSub(SumOfRestarts(pod.Containers), WOfInt32(c.HealthThreshold)))

\* the formula of C9 where no int32 operation wraps
C9_HealthScoreFormulaWithinInt32 ==
    (out # Nil /\ NoWrap(criteria, inp.pod)) =>
        /\ out[1].podOpt.HealthStatus.HealthScore = HealthFormula(criteria, inp.pod)
        /\ WithinRange(out[1].podOpt.HealthStatus.HealthScore)
        /\ WithinRange(out[1].podOpt.OptimizationScore)

\* 8 restarts with threshold 5, ready and Running: the score is 70
C9_Seventy ==
    /\ out # Nil
    /\ criteria.HealthThreshold = 5
    /\ SumOfRestarts(inp.pod.Containers) = W(8)
    /\ inp.pod.Ready
    /\ inp.pod.Status = "Running"
    /\ out[1].podOpt.HealthStatus.HealthScore = W(70)

---------------------------------------------------------------------------
(* C10: the recommendations of a Pod *)

RecommendationsFollowIssues(podOpt, recommendations) ==
    /\ Len(recommendations) = Len(podOpt.Issues)
    /\ \A k \in 1..Len(recommendations) :
          /\ recommendations[k].ID = <<"REC-", podOpt.PodName, "-", Digits[k + 1]>>
          /\ recommendations[k].Priority = podOpt.Issues[k].Severity
          /\ recommendations[k].Title = podOpt.Issues[k].Description
          /\ recommendations[k].Description = podOpt.Issues[k].Suggestion
          /\ recommendations[k].PodName = podOpt.PodName
          /\ recommendations[k].Namespace = podOpt.Namespace
    /\ \A j, k \in 1..Len(recommendations) :
          j # k => recommendations[j].ID # recommendations[k].ID

\* C10: generatePodRecommendations returns one recommendation per issue, in
\* the order of the issues; the k-th has the id REC-<podName>-k (k from 1), the
\* issue's severity as priority, the issue's texts, and the Pod's name and
\* namespace; the ids of one Pod are distinct and consecutive.
C10_OneRecommendationPerIssue ==
    (out # Nil /\ out[1].recommendations # Nil) =>
        /\ out[1].podOpt.PodName = inp.pod.Name
        /\ out[1].podOpt.Namespace = inp.pod.Namespace
        /\ RecommendationsFollowIssues(out[1].podOpt, out[1].recommendations[1])

\* the recommendations of a Pod with four issues, of both severities, have
\* been generated
C10_Witness ==
    /\ out # Nil
    /\ out[1].recommendations # Nil
    /\ Len(out[1].podOpt.Issues) = 4
    /\ Len(out[1].recommendations[1]) = 4
    /\ out[1].recommendations[1][1].Priority = PriorityMedium
    /\ out[1].recommendations[1][4].Priority = PriorityHigh
    /\ out[1].recommendations[1][4].ID = <<"REC-", "web", "-", "4">>

---------------------------------------------------------------------------
(* C11: the types of the recommendations *)

NeverEmitted == {RecommendationStorage, RecommendationReplica, RecommendationSecurity}

TypeByRule(issueType) ==
    IF Contains(issueType, <<"C", "P", "U">>) THEN "CPU"
    ELSE IF Contains(issueType, <<"M", "E", "M", "O", "R", "Y">>) THEN "MEMORY"
    ELSE "HEALTH"

\* C11: the type of every recommendation is CPU if its issue's type contains
\* CPU, otherwise MEMORY if it contains MEMORY, otherwise HEALTH; no
\* recommendation has the type STORAGE, REPLICA or SECURITY, and filtering the
\* recommendations by one of these three types gives the empty list.
C11_TypesFollowIssueTypes ==
    /\ (out # Nil /\ out[1].recommendations # Nil) =>
          \A k \in 1..Len(out[1].recommendations[1]) :
             /\ k <= Len(out[1].podOpt.Issues)
             /\ out[1].recommendations[1][k].Type =
                    TypeByRule(out[1].podOpt.Issues[k].Type)
             /\ out[1].recommendations[1][k].Type \notin NeverEmitted
    /\ (out # Nil /\ out[1].filtered # Nil
            /\ out[1].filtered[1].recommendationType \in NeverEmitted) =>
          out[1].filtered[1].recommendations = <<>>

\* four recommendations, of the types CPU, MEMORY and HEALTH, have been
\* filtered by the type REPLICA
C11_Witness ==
    /\ out # Nil
    /\ out[1].recommendations # Nil
    /\ out[1].filtered # Nil
    /\ Len(out[1].recommendations[1]) = 4
    /\ {out[1].recommendations[1][k].Type : k \in 1..4} = {"CPU", "MEMORY", "HEALTH"}
    /\ out[1].filtered[1].recommendationType = RecommendationReplica
    /\ out[1].filtered[1].recommendations = <<>>

---------------------------------------------------------------------------
(* C12: the waste records *)

MetricOf(podAnalysis, resourceType) ==
    IF resourceType = "CPU" THEN podAnalysis.ResourceAnalysis.CPU
    ELSE podAnalysis.ResourceAnalysis.Memory

RecordsOf(wastes, podName, resourceType) ==
    {k \in 1..Len(wastes) :
        wastes[k].PodName = podName /\ wastes[k].ResourceType = resourceType}

WasteRecordsFollowStatus(podAnalyses, wastes) ==
    /\ \A i \in 1..Len(podAnalyses) : \A t \in {"CPU", "MEMORY"} :
          /\ Cardinality(RecordsOf(wastes, podAnalyses[i].PodName, t)) =
                IF MetricOf(podAnalyses[i], t).Status = "OVER_PROVISIONED" THEN 1 ELSE 0
          /\ \A k \in RecordsOf(wastes, podAnalyses[i].PodName, t) :
                wastes[k].WastePercentage =
                    RSub(RInt(100), MetricOf(podAnalyses[i], t).Utilization)
    /\ \A k \in 1..Len(wastes) :
          /\ wastes[k].ResourceType \in {"CPU", "MEMORY"}
          /\ \E i \in 1..Len(podAnalyses) : wastes[k].PodName = podAnalyses[i].PodName

\* C12: analyzeResourceWaste returns, for each analysed Pod, one CPU record
\* exactly when the Pod's CPU status is OVER_PROVISIONED and one MEMORY record
\* exactly when its memory status is OVER_PROVISIONED, each with the waste
\* percentage 100 - utilization, and no other record; UnderUtilizedPods is empty.
C12_WasteRecordsPerPod ==
    (inp.fn = "analyzeResourceWaste" /\ out # Nil) =>
        /\ WasteRecordsFollowStatus(inp.podAnalyses,
                                    out[1].resourceWaste.OverProvisionedPods)
        /\ out[1].resourceWaste.UnderUtilizedPods = <<>>

\* the waste of two Pods has been analysed: the first has a CPU and a MEMORY
\* record, the second, over-provisioned in memory only, a MEMORY record
C12_Witness ==
    /\ inp.fn = "analyzeResourceWaste"
    /\ out # Nil
    /\ Len(inp.podAnalyses) = 2
    /\ inp.podAnalyses[2].ResourceAnalysis.CPU.Status = "OPTIMAL"
    /\ Len(out[1].resourceWaste.OverProvisionedPods) = 3
    /\ out[1].resourceWaste.OverProvisionedPods[1].WastePercentage = RInt(95)
    /\ out[1].resourceWaste.OverProvisionedPods[3].PodName = "p2"
    /\ out[1].resourceWaste.OverProvisionedPods[3].ResourceType = "MEMORY"
    /\ out[1].resourceWaste.OverProvisionedPods[3].WastePercentage = RInt(75)

---------------------------------------------------------------------------
(* C13: the idle Pods *)

BelowIdle(c, metric) == RLt(metric.Utilization, c.IdleThreshold)

ListedIn(names, podName) == {k \in 1..Len(names) : names[k] = podName}

\* C13: a Pod's name is in IdlePods exactly when its CPU utilization and its
\* memory utilization are both strictly below idleThreshold; a Pod with one of
\* the two at or above the threshold is not listed, and no other name is.
C13_IdleIffBothBelow ==
    (inp.fn = "analyzeResourceWaste" /\ out # Nil) =>
        /\ \A i \in 1..Len(inp.podAnalyses) :
              Cardinality(ListedIn(out[1].resourceWaste.IdlePods,
                                   inp.podAnalyses[i].PodName)) =
                 IF /\ BelowIdle(criteria, inp.podAnalyses[i].ResourceAnalysis.CPU)
                    /\ BelowIdle(criteria, inp.podAnalyses[i].ResourceAnalysis.Memory)
                 THEN 1 ELSE 0
        /\ \A k \in 1..Len(out[1].resourceWaste.IdlePods) :
              \E i \in 1..Len(inp.podAnalyses) :
                 out[1].resourceWaste.IdlePods[k] = inp.podAnalyses[i].PodName

\* of two analysed Pods the first, with both utilizations below the threshold,
\* is listed and the second, with only its CPU utilization below it, is not
C13_Witness ==
    /\ inp.fn = "analyzeResourceWaste"
    /\ out # Nil
    /\ Len(inp.podAnalyses) = 2
    /\ BelowIdle(criteria, inp.podAnalyses[2].ResourceAnalysis.CPU)
    /\ inp.podAnalyses[2].ResourceAnalysis.CPU.Status = "IDLE"
    /\ ~BelowIdle(criteria, inp.podAnalyses[2].ResourceAnalysis.Memory)
    /\ inp.podAnalyses[1].ResourceAnalysis.Memory.Status = "IDLE"
    /\ out[1].resourceWaste.IdlePods = <<"p1">>

---------------------------------------------------------------------------
(* C14: the aggregate waste percentage *)

\* the sum of the waste percentages of the first n records
RECURSIVE SumOfWaste(_, _)
SumOfWaste(wastes, n) ==
    IF n = 0 THEN RInt(0)
    ELSE RAdd(SumOfWaste(wastes, n - 1), wastes[n].WastePercentage)

AggregateWaste(wastes) ==
    IF Len(wastes) = 0 THEN RInt(0)
    ELSE RDiv(SumOfWaste(wastes, Len(wastes)), RInt(2 * Len(wastes)))

\* C14: the aggregate waste percentage is the sum of the CPU and the memory
\* waste percentages divided by twice the number of waste records, and 0
\* when there is no record; two CPU records of 95 and 90 and no memory record
\* give 46.25.
C14_AggregateWaste ==
    (inp.fn = "analyzeResourceWaste" /\ out # Nil) =>
        /\ out[1].resourceWaste.TotalWastage.WastePercentage =
              AggregateWaste(out[1].resourceWaste.OverProvisionedPods)
        /\ (/\ Len(out[1].resourceWaste.OverProvisionedPods) = 2
            /\ \A k \in 1..2 :
                  out[1].resourceWaste.OverProvisionedPods[k].ResourceType = "CPU"
            /\ out[1].resourceWaste.OverProvisionedPods[1].WastePercentage = RInt(95)
            /\ out[1].resourceWaste.OverProvisionedPods[2].WastePercentage = RInt(90))
           => out[1].resourceWaste.TotalWastage.WastePercentage = R(4625, 100)

\* the waste of two Pods at 5 and 10 per cent of their CPU limit and with
\* optimal memory has been analysed: two CPU records, 95 and 90, aggregate 46.25
C14_Witness ==
    /\ inp.fn = "analyzeResourceWaste"
    /\ out # Nil
    /\ Len(out[1].resourceWaste.OverProvisionedPods) = 2
    /\ \A k \in 1..2 : out[1].resourceWaste.OverProvisionedPods[k].ResourceType = "CPU"
    /\ out[1].resourceWaste.OverProvisionedPods[1].WastePercentage = RInt(95)
    /\ out[1].resourceWaste.OverProvisionedPods[2].WastePercentage = RInt(90)
    /\ out[1].resourceWaste.TotalWastage.WastePercentage = R(185, 4)

---------------------------------------------------------------------------
(* C15: the summary *)

\* the sum of the scores of the first n analyses
RECURSIVE SumOfScores(_, _)
SumOfScores(podAnalyses, n) ==
    IF n = 0 THEN W(0)
    ELSE WAdd(SumOfScores(podAnalyses, n - 1), podAnalyses[n].OptimizationScore)

WithIssues(podAnalyses) == {i \in 1..Len(podAnalyses) : podAnalyses[i].Issues # <<>>}

SummaryOf(podAnalyses, resourceWaste, summary) ==
    /\ summary.TotalPods = Len(podAnalyses)
    /\ summary.PodsNeedingOptimization = Cardinality(WithIssues(podAnalyses))
    /\ summary.PodsNeedingOptimization \in 0..summary.TotalPods
    /\ Len(podAnalyses) > 0 =>
          /\ summary.OverallScore.num = SumOfScores(podAnalyses, Len(podAnalyses))
          /\ summary.OverallScore.den = Len(podAnalyses)
    /\ Len(podAnalyses) = 0 => summary.OverallScore = [num |-> W(0), den |-> 1]
    /\ summary.PotentialCPUSavings = resourceWaste.TotalWastage.TotalCPUWaste
    /\ summary.PotentialMemorySavings = resourceWaste.TotalWastage.TotalMemoryWaste

\* C15: in the summary totalPods is the number of Pod analyses,
\* podsNeedingOptimization the number of them with at least one issue (between
\* 0 and totalPods), overallScore the arithmetic mean of their scores (0
\* without Pods), and the potential CPU and memory savings are the formatted
\* totals of the waste statistics.
C15_SummaryOfAnalyses ==
    (inp.fn = "analyzeResourceWaste" /\ out # Nil /\ out[1].summary # Nil) =>
        SummaryOf(inp.podAnalyses, out[1].resourceWaste, out[1].summary[1])

\* the summary of two Pods has been made: one without issues and one with two
C15_Witness ==
    /\ inp.fn = "analyzeResourceWaste"
    /\ out # Nil
    /\ out[1].summary # Nil
    /\ Len(inp.podAnalyses) = 2
    /\ inp.podAnalyses[1].Issues = <<>>
    /\ Len(inp.podAnalyses[2].Issues) = 2
    /\ out[1].summary[1].TotalPods = 2
    /\ out[1].summary[1].PodsNeedingOptimization = 1
    /\ out[1].summary[1].OverallScore.den = 2
    /\ out[1].summary[1].PotentialCPUSavings # out[1].summary[1].PotentialMemorySavings

---------------------------------------------------------------------------
(* C16: the single-Pod analysis *)

\* the single-Pod queries that have been answered
PodQueriesDone ==
    {p \in Callers :
        pc[p] = "done" /\ rep[p].query.tool = "get_pod_optimization_analysis"}

NamedIn(podAnalyses, podName) ==
    {i \in 1..Len(podAnalyses) : podAnalyses[i].PodName = podName}

\* C16: a single-Pod analysis for a name that no analysed Pod has returns an
\* error and no result; a successful one returns an analysis of the requested
\* name and related recommendations of that name only.
C16_SinglePodAnalysis ==
    \A p \in PodQueriesDone :
        /\ NamedIn(rep[p].podAnalysis, rep[p].query.podName) = {} =>
              ret[p].err # None /\ ret[p].val = Nil
        /\ ret[p].err = None =>
              /\ ret[p].val # Nil
              /\ ret[p].val[1].PodName = rep[p].query.podName
              /\ ret[p].val[1].PodAnalysis.PodName = rep[p].query.podName
              /\ ret[p].val[1].PodAnalysis \in
                    {rep[p].podAnalysis[i] : i \in 1..Len(rep[p].podAnalysis)}
              /\ \A k \in 1..Len(ret[p].val[1].RelatedRecommendations) :
                    ret[p].val[1].RelatedRecommendations[k].PodName =
                        rep[p].query.podName

\* the analysis of a Pod named zz was asked of a namespace with two analysed
\* Pods of other names, and the error came back
C16_Witness ==
    \E p \in PodQueriesDone :
        /\ rep[p].query.podName = "zz"
        /\ Len(rep[p].podAnalysis) = 2
        /\ ret[p].err # None
        /\ ret[p].val = Nil

---------------------------------------------------------------------------
(* C17: results are computed from the criteria in force *)

FreshAnalyses(c, pods, fetched) ==
    [i \in 1..Len(pods) |-> analyzePod(c, pods[i], fetched[i]).podOpt]

RECURSIVE FreshRecommendations(_, _)
FreshRecommendations(podAnalyses, n) ==
    IF n = 0 THEN <<>>
    ELSE FreshRecommendations(podAnalyses, n - 1)
            \o generatePodRecommendations(podAnalyses[n])

\* report is what the Pods and their fetches give under the criteria c
FreshReport(c, pods, fetched, report) ==
    /\ report.PodAnalysis = FreshAnalyses(c, pods, fetched)
    /\ report.Recommendations =
          FreshRecommendations(report.PodAnalysis, Len(report.PodAnalysis))
    /\ report.ResourceWaste = analyzeResourceWaste(c, report.PodAnalysis)
    /\ report.Summary = generateSummary(report.PodAnalysis, report.ResourceWaste)

\* response is the tool's part of report
PartOfReport(q, report, response) ==
    /\ q.tool = "generate_optimization_report" => response = report
    /\ q.tool = "get_optimization_summary" => response.Summary = report.Summary
    /\ q.tool = "get_optimization_recommendations" =>
          /\ response.TotalCount = Len(report.Recommendations)
          /\ \A k \in 1..Len(response.Recommendations) :
                \E j \in 1..Len(report.Recommendations) :
                   response.Recommendations[k] = report.Recommendations[j]
    /\ q.tool = "get_resource_waste_analysis" =>
          response.ResourceWaste = report.ResourceWaste
    /\ q.tool = "get_pod_optimization_analysis" =>
          \E i \in 1..Len(report.PodAnalysis) :
             response.PodAnalysis = report.PodAnalysis[i]

FreshStep(p) ==
    /\ (pc[p] = "locked" /\ pc'[p] = "done") =>
          criteria' = CriteriaAfterUpdate(criteria, arguments[p])
    /\ (pc[p] = "get" /\ pc'[p] = "done") => ret'[p].val = Some(criteria)
    /\ (pc[p] = "analyze" /\ pc'[p] = "runlock") =>
          /\ ret'[p].err = None
          /\ rep[p].pods = [i \in 1..Len(cluster) |-> cluster[i].pod]
          /\ FreshReport(criteria, rep[p].pods, rep[p].fetched, ret'[p].val[1])
    /\ (pc[p] = "respond" /\ pc'[p] = "done" /\ ret[p].err = None) =>
          /\ FreshReport(criteria, rep[p].pods, rep[p].fetched, ret[p].val[1])
          /\ ret'[p].err = None =>
                PartOfReport(rep[p].query, ret[p].val[1], ret'[p].val[1])

\* C17: every report and every narrower query is computed from the criteria
\* in force when it runs and from its own Pod list and fetches: the criteria
\* change only when an update commits, to the record that update asked for;
\* a report composed afterwards is the analysis under that record, a narrower
\* query answers from the report of its own call, and getCriteria returns the
\* record.
C17_ComputedAfresh ==
    [][/\ criteria' # criteria => \E p \in Callers : pc[p] = "locked" /\ pc'[p] = "done"
       /\ \A p \in Callers : FreshStep(p)]_vars

\* after an update that raised the idle threshold to 10 a report over Pod a
\* is composed: its CPU, at 5 per cent, is IDLE, not OVER_PROVISIONED as
\* under the default criteria
C17_Witness ==
    \E p \in Callers :
        /\ pc[p] = "runlock"
        /\ criteria.IdleThreshold = RInt(10)
        /\ ret[p].val # Nil
        /\ Len(ret[p].val[1].PodAnalysis) > 0
        /\ ret[p].val[1].PodAnalysis[1].ResourceAnalysis.CPU.Status = "IDLE"
        /\ analyzePod(DefaultCriteria, rep[p].pods[1], rep[p].fetched[1])
              .podOpt.ResourceAnalysis.CPU.Status = "OVER_PROVISIONED"

---------------------------------------------------------------------------
(* C18: the generation timestamp *)

\* the calls whose report has been composed
Reported == {p \in Callers : pc[p] = "runlock" /\ ret[p].err = None}

\* C18: the generation timestamp is taken at the start of composition, before
\* the Pod list is fetched and before any Pod is analysed: it is not later
\* than the listing nor than any per-Pod usage fetch of the report.
C18_StampedAtStart ==
    \A p \in Reported :
        /\ ret[p].val[1].GeneratedAt <= rep[p].listedAt
        /\ \A i \in 1..Len(rep[p].fetchedAt) :
              ret[p].val[1].GeneratedAt <= rep[p].fetchedAt[i]

\* C18, amended: the generation timestamp is taken once, when the report
\* record is built at the end of composition: it is not earlier than the
\* listing nor than any per-Pod usage fetch of the report, and every Pod of
\* the list has been fetched by then.
C18_StampedAtEnd ==
    \A p \in Reported :
        /\ rep[p].listedAt <= ret[p].val[1].GeneratedAt
        /\ Len(rep[p].fetchedAt) = Len(rep[p].pods)
        /\ \A i \in 1..Len(rep[p].fetchedAt) :
              /\ rep[p].listedAt <= rep[p].fetchedAt[i]
              /\ rep[p].fetchedAt[i] <= ret[p].val[1].GeneratedAt

\* a report over two Pods is composed; its timestamp is later than the fetch
\* of the second Pod's usage
C18_Witness ==
    \E p \in Reported :
        /\ Len(rep[p].fetchedAt) = 2
        /\ rep[p].fetchedAt[2] < ret[p].val[1].GeneratedAt

---------------------------------------------------------------------------
(* C19: report composition is deterministic *)

\* two reports agree in everything but the timestamp
SameButTimestamp(r1, r2) ==
    /\ r1.PodAnalysis = r2.PodAnalysis
    /\ \A i \in 1..Len(r1.PodAnalysis) :
          /\ r1.PodAnalysis[i].Issues = r2.PodAnalysis[i].Issues
          /\ r1.PodAnalysis[i].OptimizationScore = r2.PodAnalysis[i].OptimizationScore
    /\ r1.Recommendations = r2.Recommendations
    /\ r1.ResourceWaste = r2.ResourceWaste
    /\ r1.Summary = r2.Summary
    /\ r1.ClusterName = r2.ClusterName
    /\ r1.Namespace = r2.Namespace

---------------------------------------------------------------------------
(* C20: parseResourceValue *)

\* the value the rules give to the number part under the suffix
ValueByRule(number, suffix) ==
    IF number \o suffix \in {<<>>, <<"-">>} THEN RInt(0)
    ELSE IF ParseFloat(number).err THEN RInt(0)
    ELSE IF ToLower(suffix) \in {<<>>, <<"m">>, <<"m", "i">>} THEN ParseFloat(number).val
    ELSE IF ToLower(suffix) = <<"g", "i">> THEN RMul(ParseFloat(number).val, RInt(1024))
    ELSE RInt(0)

ParsedByRule ==
    (inp.fn = "parseResourceValue" /\ out # Nil) =>
        out[1] = ValueByRule(inp.number, inp.suffix)

\* C20: parseResourceValue returns a value >= 0 for every quantity string: 0
\* for the empty string, for "-" and for a string it cannot parse, the number
\* before a suffix m or Mi (in either case), 1024 times the number before Gi,
\* and the number itself without suffix.
C20_ParseNonNegative ==
    /\ ParsedByRule
    /\ (inp.fn = "parseResourceValue" /\ out # Nil) => RLe(RInt(0), out[1])

---------------------------------------------------------------------------
(* C21: calculateUtilization *)

\* current / limit * 100 for two parsed values, limit not 0
Percentage(currentVal, limitVal) ==
    R(currentVal.n * limitVal.d * 100, currentVal.d * limitVal.n)

\* C21: for every pair (current, limit) whose limit parses to 0,
\* calculateUtilization returns 0 (nothing is divided); for every other pair
\* it returns parse(current) / parse(limit) * 100.
C21_UtilizationOrZero ==
    (inp.fn = "calculateUtilization" /\ out # Nil) =>
        /\ parseResourceValue(inp.limit) = RInt(0) => out[1] = RInt(0)
        /\ parseResourceValue(inp.limit) # RInt(0) =>
              out[1] = Percentage(parseResourceValue(inp.current),
                                  parseResourceValue(inp.limit))

\* the utilization of 500m under the limit 0m has been calculated, and is 0
C21_Witness ==
    /\ inp.fn = "calculateUtilization"
    /\ inp.current = Qty["500m"]
    /\ inp.limit = <<"0", "m">>
    /\ out = Some(RInt(0))

---------------------------------------------------------------------------
(* C22: the health score falls as the restarts grow *)

\* pod2 differs from pod1 in its containers' restarts only, both totals are
\* within int32, and pod2's total is at least pod1's
MoreRestarts(pod1, pod2) ==
    /\ pod2.Ready = pod1.Ready
    /\ pod2.Status = pod1.Status
    /\ FitsInt32(SumOfRestarts(pod1.Containers))
    /\ FitsInt32(SumOfRestarts(pod2.Containers))
    /\ WLe(SumOfRestarts(pod1.Containers), SumOfRestarts(pod2.Containers))

\* C22: with readiness, status and healthThreshold fixed, the health score
\* does not grow with the total restart count: of two Pods whose totals
\* r1 <= r2 are within int32, the second has no higher score; and the score is
\* never negative.
C22_HealthScoreMonotone ==
    out # Nil =>
        /\ WLe(W(0), out[1].podOpt.HealthStatus.HealthScore)
        /\ \A pod2 \in PodInputs :
              MoreRestarts(inp.pod, pod2) =>
                  WLe(analyzeHealthStatus(criteria, pod2).HealthScore,
                      out[1].podOpt.HealthStatus.HealthScore)

---------------------------------------------------------------------------
(* C23: concurrent updates *)

\* the calls of update_optimization_criteria that have returned their response
UpdatesDone == {p \in Callers : pc[p] = "done" /\ arguments[p] # NoArguments}

\* the records that updates with the drawn arguments can install
InstallableCriteria ==
    [CPUThreshold : {RInt(20), RInt(15)}, MemoryThreshold : {RInt(30), RInt(40)},
     HealthThreshold : {5, 3}, IdleThreshold : {RInt(5), RInt(10)}]

\* C23: concurrent update calls are atomic with respect to each other: when
\* two calls have both returned, the stored criteria are what the two calls
\* give applied one after the other, in one of the two orders, to some
\* record; when one supplied only cpuThreshold and the other only
\* memoryThreshold, both supplied values are in force.
C23_UpdatesSerializable ==
    \A p \in UpdatesDone : \A q \in UpdatesDone \ {p} :
        /\ \E base \in InstallableCriteria :
              \/ criteria = CriteriaAfterUpdate(CriteriaAfterUpdate(base, arguments[p]),
                                                arguments[q])
              \/ criteria = CriteriaAfterUpdate(CriteriaAfterUpdate(base, arguments[q]),
                                                arguments[p])
        /\ (/\ arguments[p].cpuThreshold # Nil /\ arguments[p].memoryThreshold = Nil
            /\ arguments[q].cpuThreshold = Nil /\ arguments[q].memoryThreshold # Nil)
           => /\ criteria.CPUThreshold = arguments[p].cpuThreshold[1]
              /\ criteria.MemoryThreshold = arguments[q].memoryThreshold[1]

---------------------------------------------------------------------------
(* C24: idle Pods and metrics that are not known *)

\* C24: a Pod is listed in IdlePods only if its CPU metric and its memory
\* metric are both classified IDLE; a Pod with an UNKNOWN metric is not listed.
C24_IdleOnlyIfClassifiedIdle ==
    (inp.fn = "analyzeResourceWaste" /\ out # Nil) =>
        \A i \in 1..Len(inp.podAnalyses) :
            ListedIn(out[1].resourceWaste.IdlePods, inp.podAnalyses[i].PodName) # {} =>
                /\ inp.podAnalyses[i].ResourceAnalysis.CPU.Status = "IDLE"
                /\ inp.podAnalyses[i].ResourceAnalysis.Memory.Status = "IDLE"

---------------------------------------------------------------------------
(* C25: over-provisioned records, MEDIUM issues, MEDIUM recommendations *)

\* the issues of the given severity over all analysed Pods
IssuesOfSeverity(podAnalyses, severity) ==
    UNION {{<<i, k>> : k \in {j \in 1..Len(podAnalyses[i].Issues) :
                                  podAnalyses[i].Issues[j].Severity = severity}} :
           i \in 1..Len(podAnalyses)}

\* the recommendations of the report that are for the named Pod
RecommendationsFor(recommendations, podName) ==
    {k \in 1..Len(recommendations) : recommendations[k].PodName = podName}

\* the Pod's only finding is an over-provisioned CPU
OnlyCPUOverProvisioned(c, podAnalysis) ==
    /\ podAnalysis.ResourceAnalysis.CPU.Status = "OVER_PROVISIONED"
    /\ podAnalysis.ResourceAnalysis.Memory.Status \notin {"OVER_PROVISIONED", "UNDER_PROVISIONED"}
    /\ podAnalysis.HealthStatus.RestartCount <= c.HealthThreshold
    /\ podAnalysis.HealthStatus.Ready

ReportCounts(c, report) ==
    /\ Len(report.ResourceWaste.OverProvisionedPods) =
          Cardinality(IssuesOfSeverity(report.PodAnalysis, PriorityMedium))
    /\ Len(report.ResourceWaste.OverProvisionedPods) =
          Cardinality({k \in 1..Len(report.Recommendations) :
                          report.Recommendations[k].Priority = PriorityMedium})
    /\ \A i \in 1..Len(report.PodAnalysis) : \A k \in 1..Len(report.PodAnalysis[i].Issues) :
          report.PodAnalysis[i].Issues[k].Severity \in {PriorityHigh, PriorityMedium}
    /\ \A k \in 1..Len(report.Recommendations) :
          report.Recommendations[k].Priority \in {PriorityHigh, PriorityMedium}
    /\ \A i \in 1..Len(report.PodAnalysis) :
          OnlyCPUOverProvisioned(c, report.PodAnalysis[i]) =>
             /\ Len(report.PodAnalysis[i].Issues) = 1
             /\ report.PodAnalysis[i].Issues[1].Severity = PriorityMedium
             /\ report.PodAnalysis[i].Issues[1].Type = CPU_OVER_PROVISIONED
             /\ \E k \in 1..Len(report.Recommendations) :
                   /\ RecommendationsFor(report.Recommendations,
                                         report.PodAnalysis[i].PodName) = {k}
                   /\ report.Recommendations[k].Type = RecommendationCPU
             /\ \E k \in 1..Len(report.ResourceWaste.OverProvisionedPods) :
                   /\ RecordsOf(report.ResourceWaste.OverProvisionedPods,
                                report.PodAnalysis[i].PodName, "CPU") = {k}
                   /\ RecordsOf(report.ResourceWaste.OverProvisionedPods,
                                report.PodAnalysis[i].PodName, "MEMORY") = {}

\* C25: in every report the over-provisioned waste records, the MEDIUM issues
\* over all analysed Pods and the MEDIUM recommendations are equally many;
\* every issue and every recommendation is HIGH or MEDIUM; a Pod whose only
\* finding is an over-provisioned CPU has one MEDIUM issue, one recommendation,
\* of type CPU, and one waste record, for CPU.
C25_MediumMeansOverProvisioned ==
    \A p \in Reported : ReportCounts(criteria, ret[p].val[1])

\* a report on two Pods: the first at 5 per cent CPU of its limit under
\* cpuThreshold 20 with nothing else to find, the second with HIGH issues only
C25_Witness ==
    \E p \in Reported :
        /\ criteria.CPUThreshold = RInt(20)
        /\ Len(ret[p].val[1].PodAnalysis) = 2
        /\ OnlyCPUOverProvisioned(criteria, ret[p].val[1].PodAnalysis[1])
        /\ ret[p].val[1].PodAnalysis[1].ResourceAnalysis.CPU.Utilization = RInt(5)
        /\ Len(ret[p].val[1].PodAnalysis[2].Issues) > 1
        /\ Len(ret[p].val[1].ResourceWaste.OverProvisionedPods) = 1

---------------------------------------------------------------------------
(* C26: idle dimensions *)

\* the issue types and the recommendation type of a dimension
IssueTypesOf(resourceType) ==
    IF resourceType = "CPU" THEN {CPU_OVER_PROVISIONED, CPU_UNDER_PROVISIONED}
    ELSE {MEMORY_OVER_PROVISIONED, MEMORY_UNDER_PROVISIONED}

RecommendationTypeOf(resourceType) ==
    IF resourceType = "CPU" THEN RecommendationCPU ELSE RecommendationMemory

\* an idle dimension of the Pod leaves no issue, recommendation or waste record
IdleLeavesNothing(podAnalysis, recommendations, wastes) ==
    \A t \in {"CPU", "MEMORY"} :
        MetricOf(podAnalysis, t).Status = "IDLE" =>
            /\ \A k \in 1..Len(podAnalysis.Issues) :
                  podAnalysis.Issues[k].Type \notin IssueTypesOf(t)
            /\ \A k \in 1..Len(recommendations) :
                  recommendations[k].Type # RecommendationTypeOf(t)
            /\ RecordsOf(wastes, podAnalysis.PodName, t) = {}

\* ready, Running, restarts within the threshold, CPU and memory both IDLE
IdleAndHealthy(c, podAnalysis) ==
    /\ podAnalysis.HealthStatus.Ready
    /\ podAnalysis.Status = "Running"
    /\ podAnalysis.HealthStatus.RestartCount <= c.HealthThreshold
    /\ podAnalysis.ResourceAnalysis.CPU.Status = "IDLE"
    /\ podAnalysis.ResourceAnalysis.Memory.Status = "IDLE"

\* C26: a dimension classified IDLE produces no issue, no recommendation and
\* no waste record; a ready, Running Pod with restarts within healthThreshold
\* whose CPU and memory are both IDLE has no issues and optimization score
\* 100, is listed in IdlePods and is not counted in podsNeedingOptimization.
C26_IdleIsNoFinding ==
    (inp.fn = "analyzeResourceWaste" /\ out # Nil) =>
        /\ \A i \in 1..Len(inp.podAnalyses) :
              /\ IdleLeavesNothing(inp.podAnalyses[i],
                                   generatePodRecommendations(inp.podAnalyses[i]),
                                   out[1].resourceWaste.OverProvisionedPods)
              /\ IdleAndHealthy(criteria, inp.podAnalyses[i]) =>
                    /\ inp.podAnalyses[i].Issues = <<>>
                    /\ inp.podAnalyses[i].OptimizationScore = W(100)
                    /\ ListedIn(out[1].resourceWaste.IdlePods,
                                inp.podAnalyses[i].PodName) # {}
        /\ out[1].summary # Nil =>
              out[1].summary[1].PodsNeedingOptimization + 
                 Cardinality({i \in 1..Len(inp.podAnalyses) :
                                 IdleAndHealthy(criteria, inp.podAnalyses[i])})
              <= Len(inp.podAnalyses)

\* the summary of two Pods has been made: the first idle in both dimensions,
\* the second idle in memory only and with an over-provisioned CPU
C26_Witness ==
    /\ inp.fn = "analyzeResourceWaste"
    /\ out # Nil
    /\ out[1].summary # Nil
    /\ Len(inp.podAnalyses) = 2
    /\ IdleAndHealthy(criteria, inp.podAnalyses[1])
    /\ inp.podAnalyses[2].ResourceAnalysis.Memory.Status = "IDLE"
    /\ inp.podAnalyses[2].ResourceAnalysis.CPU.Status = "OVER_PROVISIONED"
    /\ out[1].resourceWaste.IdlePods = <<"p1">>
    /\ Len(out[1].resourceWaste.OverProvisionedPods) = 1
    /\ out[1].summary[1].PodsNeedingOptimization = 1

---------------------------------------------------------------------------
(* C27: impact and action of a recommendation *)

\* C27: every recommendation of every report has a non-empty impact text and
\* a non-empty action text, whichever of the six issue types it was made for.
C27_ImpactAndActionGiven ==
    \A p \in Reported :
        \A k \in 1..Len(ret[p].val[1].Recommendations) :
            /\ ret[p].val[1].Recommendations[k].Impact # ""
            /\ ret[p].val[1].Recommendations[k].Action # ""

---------------------------------------------------------------------------
(* C28: the range of the waste percentages *)

InPercentRange(x) == RLe(RInt(0), x) /\ RLe(x, RInt(100))

\* C28: the waste percentage of every waste record, and the aggregate waste
\* percentage, lie between 0 and 100, whatever the usage and the criteria.
C28_WasteInRange ==
    (inp.fn = "analyzeResourceWaste" /\ out # Nil) =>
        /\ \A k \in 1..Len(out[1].resourceWaste.OverProvisionedPods) :
              InPercentRange(out[1].resourceWaste.OverProvisionedPods[k].WastePercentage)
        /\ InPercentRange(out[1].resourceWaste.TotalWastage.WastePercentage)

---------------------------------------------------------------------------
(* C29: the lower clamp of the optimization score *)

\* the issues of the Pod whose type is one of the given
IssuesAmong(issues, types) == {k \in 1..Len(issues) : issues[k].Type \in types}

\* C29: a Pod has at most four issues, at most one for its CPU, one for its
\* memory, one for its restarts and one for not being ready; so the penalized
\* score is at least 20 and the optimization score at least 10, and the
\* score before the clamp is never below 0.
C29_ClampNeverReached ==
    out # Nil =>
        /\ Len(out[1].podOpt.Issues) <= 4
        /\ Cardinality(IssuesAmong(out[1].podOpt.Issues, IssueTypesOf("CPU"))) <= 1
        /\ Cardinality(IssuesAmong(out[1].podOpt.Issues, IssueTypesOf("MEMORY"))) <= 1
        /\ Cardinality(IssuesAmong(out[1].podOpt.Issues, {HIGH_RESTART_COUNT})) <= 1
        /\ Cardinality(IssuesAmong(out[1].podOpt.Issues, {POD_NOT_READY})) <= 1
        /\ WLe(W(20), PenalizedScore(out[1].podOpt.Issues))
        /\ WLe(W(10), out[1].podOpt.OptimizationScore)
        /\ WLe(W(0), WHalf(WAdd(PenalizedScore(out[1].podOpt.Issues),
                                out[1].podOpt.HealthStatus.HealthScore)))

\* a Pod with four issues, all HIGH, and health score 0: its optimization
\* score is 10
C29_Witness ==
    /\ out # Nil
    /\ Len(out[1].podOpt.Issues) = 4
    /\ PenalizedScore(out[1].podOpt.Issues) = W(20)
    /\ out[1].podOpt.HealthStatus.HealthScore = W(0)
    /\ out[1].podOpt.OptimizationScore = W(10)

---------------------------------------------------------------------------
(* C30: no deadlock on the criteria lock *)

\* the caller holds the criteria lock, for reading or for writing
Holds(p) == p \in readers \/ writer = p

\* the caller is about to call RLock or Lock, or is blocked in the call
Acquiring(p) ==
    pc[p] \in {"rlock", "get", "cpuThreshold", "memoryThreshold", "healthThreshold",
               "idleThreshold", "update", "lock"}

\* a get_optimization_criteria or update_optimization_criteria call is under way
GetOrUpdateUnderWay(p) ==
    pc[p] \in {"get", "cpuThreshold", "memoryThreshold", "healthThreshold",
               "idleThreshold", "update", "lock", "locked"}

\* C30: no call acquires the criteria lock while it holds it, and, reports
\* finishing and lock acquisition being fair, every get_optimization_criteria
\* call and every update_optimization_criteria call under way returns.
C30_CallsReturn ==
    /\ [](\A p \in Callers : Acquiring(p) => ~Holds(p))
    /\ \A p \in Callers : GetOrUpdateUnderWay(p) ~> (pc[p] = "done")

\* an update is blocked in Lock by the report of the other caller, which holds
\* the lock for reading and is analysing Pods
C30_Witness ==
    /\ pc["c1"] = "lock"
    /\ pending = {"c1"}
    /\ pc["c2"] = "analyze"
    /\ readers = {"c2"}

====
